---- MODULE Spec2Model ----
(***************************************************************************)
(* Country-name reconciliation, three-way merge and births-weighted        *)
(* coverage aggregation of the maternal-health pipeline                    *)
(* (03_scripts/data_preparation/02_clean_merge_data.py and                 *)
(* 03_scripts/analysis/01_calculate_coverage.py).                          *)
(*                                                                         *)
(* A text is a sequence of one-character strings, so that exact lookup,    *)
(* whitespace stripping and pattern search are computed, not assumed.      *)
(* A number is an exact fraction [num, den] in lowest terms; NaN is a      *)
(* value of its own.  A table is [columns, rows]: the set of its column    *)
(* names and the sequence of its rows (records over those columns).        *)
(***************************************************************************)
EXTENDS Integers, Sequences, FiniteSets, TLC

----------------------------------------------------------------------------
(* Bounds of the model *)

(* rows of a merged table handed to the coverage analysis *)
MaxRows == 2

(* rows of the three cleaned tables handed to the merge, taken together *)
MaxInputRows == 4

(* rows of the mortality classification sheet *)
MaxMortalitySheetRows == 2

(* rows of the 'Unicef data' sheet *)
MaxUnicefSheetRows == 3

(* rows of the 'Projections' sheet *)
MaxPopulationSheetRows == 2

(* rows of a table standardized and filtered on its own *)
MaxFilterRows == 3

MaxCollisionRows == 2

MaxFrameRows == 2

MaxWorkflowSheetRows == 2

MaxMappingRows == 2

----------------------------------------------------------------------------
(* Numbers: exact fractions, and the not-a-number value *)

NaN == [nan |-> TRUE]

Abs(n) == IF n < 0 THEN -n ELSE n

RECURSIVE GCD(_, _)
GCD(a, b) == IF b = 0 THEN a ELSE GCD(b, a % b)

Rat(n, d) ==
    LET g == GCD(Abs(n), Abs(d))
        s == IF d < 0 THEN -1 ELSE 1
    IN  [num |-> s * (n \div g), den |-> s * (d \div g)]

Num(n) == [num |-> n, den |-> 1]

notna(x) == x # NaN

Leq(x, y) == x.num * y.den <= y.num * x.den

----------------------------------------------------------------------------
(* Texts *)

UpperCase ==
    <<"A","B","C","D","E","F","G","H","I","J","K","L","M",
      "N","O","P","Q","R","S","T","U","V","W","X","Y","Z">>

LowerCase ==
    <<"a","b","c","d","e","f","g","h","i","j","k","l","m",
      "n","o","p","q","r","s","t","u","v","w","x","y","z">>

lower(c) ==
    IF \E i \in DOMAIN UpperCase : UpperCase[i] = c
    THEN LowerCase[CHOOSE i \in DOMAIN UpperCase : UpperCase[i] = c]
    ELSE c

IsSpace(c) == c \in {" ", "\t", "\n", "\r"}

RECURSIVE lstrip(_)
lstrip(s) ==
    IF s # <<>> /\ IsSpace(Head(s)) THEN lstrip(Tail(s)) ELSE s

RECURSIVE rstrip(_)
rstrip(s) ==
    IF s # <<>> /\ IsSpace(s[Len(s)]) THEN rstrip(SubSeq(s, 1, Len(s) - 1)) ELSE s

strip(s) == rstrip(lstrip(s))

----------------------------------------------------------------------------
(* create_country_mapping: the shipped synonym table *)

country_mapping ==
       (<<"U","n","i","t","e","d"," ","S","t","a","t","e","s"," ","o","f"," ","A","m","e","r","i","c","a">>
        :> <<"U","n","i","t","e","d"," ","S","t","a","t","e","s">>)
    @@ (<<"U","S","A">>
        :> <<"U","n","i","t","e","d"," ","S","t","a","t","e","s">>)
    @@ (<<"U","S">>
        :> <<"U","n","i","t","e","d"," ","S","t","a","t","e","s">>)
    @@ (<<"U","n","i","t","e","d"," ","K","i","n","g","d","o","m">>
        :> <<"U","n","i","t","e","d"," ","K","i","n","g","d","o","m"," ","o","f"," ","G","r","e","a","t"," ","B","r","i","t","a","i","n"," ","a","n","d"," ","N","o","r","t","h","e","r","n"," ","I","r","e","l","a","n","d">>)
    @@ (<<"U","K">>
        :> <<"U","n","i","t","e","d"," ","K","i","n","g","d","o","m"," ","o","f"," ","G","r","e","a","t"," ","B","r","i","t","a","i","n"," ","a","n","d"," ","N","o","r","t","h","e","r","n"," ","I","r","e","l","a","n","d">>)
    @@ (<<"R","u","s","s","i","a">>
        :> <<"R","u","s","s","i","a","n"," ","F","e","d","e","r","a","t","i","o","n">>)
    @@ (<<"S","o","u","t","h"," ","K","o","r","e","a">>
        :> <<"R","e","p","u","b","l","i","c"," ","o","f"," ","K","o","r","e","a">>)
    @@ (<<"N","o","r","t","h"," ","K","o","r","e","a">>
        :> <<"D","e","m","o","c","r","a","t","i","c"," ","P","e","o","p","l","e","'","s"," ","R","e","p","u","b","l","i","c"," ","o","f"," ","K","o","r","e","a">>)
    @@ (<<"I","r","a","n">>
        :> <<"I","r","a","n"," ","(","I","s","l","a","m","i","c"," ","R","e","p","u","b","l","i","c"," ","o","f",")">>)
    @@ (<<"V","e","n","e","z","u","e","l","a">>
        :> <<"V","e","n","e","z","u","e","l","a"," ","(","B","o","l","i","v","a","r","i","a","n"," ","R","e","p","u","b","l","i","c"," ","o","f",")">>)
    @@ (<<"B","o","l","i","v","i","a">>
        :> <<"B","o","l","i","v","i","a"," ","(","P","l","u","r","i","n","a","t","i","o","n","a","l"," ","S","t","a","t","e"," ","o","f",")">>)
    @@ (<<"T","a","n","z","a","n","i","a">>
        :> <<"U","n","i","t","e","d"," ","R","e","p","u","b","l","i","c"," ","o","f"," ","T","a","n","z","a","n","i","a">>)
    @@ (<<"C","o","n","g","o">>
        :> <<"C","o","n","g","o">>)
    @@ (<<"D","e","m","o","c","r","a","t","i","c"," ","R","e","p","u","b","l","i","c"," ","o","f"," ","t","h","e"," ","C","o","n","g","o">>
        :> <<"D","e","m","o","c","r","a","t","i","c"," ","R","e","p","u","b","l","i","c"," ","o","f"," ","t","h","e"," ","C","o","n","g","o">>)
    @@ (<<"I","v","o","r","y"," ","C","o","a","s","t">>
        :> <<"C","ô","t","e"," ","d","'","I","v","o","i","r","e">>)
    @@ (<<"C","a","p","e"," ","V","e","r","d","e">>
        :> <<"C","a","b","o"," ","V","e","r","d","e">>)
    @@ (<<"S","w","a","z","i","l","a","n","d">>
        :> <<"E","s","w","a","t","i","n","i">>)
    @@ (<<"M","a","c","e","d","o","n","i","a">>
        :> <<"N","o","r","t","h"," ","M","a","c","e","d","o","n","i","a">>)
    @@ (<<"M","y","a","n","m","a","r">>
        :> <<"M","y","a","n","m","a","r">>)
    @@ (<<"B","u","r","m","a">>
        :> <<"M","y","a","n","m","a","r">>)
    @@ (<<"E","a","s","t"," ","T","i","m","o","r">>
        :> <<"T","i","m","o","r","-","L","e","s","t","e">>)
    @@ (<<"M","o","l","d","o","v","a">>
        :> <<"R","e","p","u","b","l","i","c"," ","o","f"," ","M","o","l","d","o","v","a">>)
    @@ (<<"S","y","r","i","a">>
        :> <<"S","y","r","i","a","n"," ","A","r","a","b"," ","R","e","p","u","b","l","i","c">>)
    @@ (<<"L","a","o","s">>
        :> <<"L","a","o"," ","P","e","o","p","l","e","'","s"," ","D","e","m","o","c","r","a","t","i","c"," ","R","e","p","u","b","l","i","c">>)
    @@ (<<"V","i","e","t","n","a","m">>
        :> <<"V","i","e","t"," ","N","a","m">>)
    @@ (<<"B","r","u","n","e","i">>
        :> <<"B","r","u","n","e","i"," ","D","a","r","u","s","s","a","l","a","m">>)
    @@ (<<"M","i","c","r","o","n","e","s","i","a">>
        :> <<"M","i","c","r","o","n","e","s","i","a"," ","(","F","e","d","e","r","a","t","e","d"," ","S","t","a","t","e","s"," ","o","f",")">>)
    @@ (<<"P","a","l","e","s","t","i","n","e">>
        :> <<"S","t","a","t","e"," ","o","f"," ","P","a","l","e","s","t","i","n","e">>)
    @@ (<<"T","u","r","k","e","y">>
        :> <<"T","ü","r","k","i","y","e">>)

create_country_mapping == country_mapping

LowerText(s) == [i \in DOMAIN s |-> lower(s[i])]

(* a lookup that ignores letter case *)
replace_ignoring_case(x, mapping) ==
    IF \E k \in DOMAIN mapping : LowerText(k) = LowerText(x)
    THEN mapping[CHOOSE k \in DOMAIN mapping : LowerText(k) = LowerText(x)]
    ELSE x

(* Series.replace(dict): a cell is replaced only when the whole cell equals a key *)
replace(x, mapping) == IF x \in DOMAIN mapping THEN mapping[x] ELSE x

StandardizeName(x, mapping) == strip(replace(x, mapping))

standardize_country_names(df, mapping) ==
    [df EXCEPT !.rows =
        [i \in DOMAIN df.rows |->
            [df.rows[i] EXCEPT !.Country = StandardizeName(@, mapping)]]]

----------------------------------------------------------------------------
(* The country names the inputs are drawn from *)

CountryX == <<"C","o","u","n","t","r","y"," ","X">>

UnitedStates == <<"U","n","i","t","e","d"," ","S","t","a","t","e","s">>

UnitedStatesOfAmerica == <<"U","n","i","t","e","d"," ","S","t","a","t","e","s"," ","o","f"," ","A","m","e","r","i","c","a">>

USA == <<"U","S","A">>

SubSaharanAfrica == <<"S","u","b","-","S","a","h","a","r","a","n"," ","A","f","r","i","c","a">>

CountryA == <<"A">>

CountryB == <<"B">>

CountryC == <<"C">>

CountryD == <<"D">>

World == <<"w","o","r","l","d">>

SouthAfrica == <<"S","o","u","t","h"," ","A","f","r","i","c","a">>

CentralAfricanRepublic == <<"C","e","n","t","r","a","l"," ","A","f","r","i","c","a","n"," ","R","e","p","u","b","l","i","c">>

Micronesia == <<"M","i","c","r","o","n","e","s","i","a">>

MicronesiaFederated == <<"M","i","c","r","o","n","e","s","i","a"," ","(","F","e","d","e","r","a","t","e","d"," ","S","t","a","t","e","s"," ","o","f",")">>

Blank == <<" ">>

(* names of a table filtered on its own: countries, aggregates, look-alikes *)
FilterNames ==
    {CountryX, SubSaharanAfrica, World, SouthAfrica, CentralAfricanRepublic,
     USA, Micronesia, Blank}

(* OfficialName values of the mortality classification sheet *)
MortalityNames == {CountryX, UnitedStates, SubSaharanAfrica}

(* Geographic area values of the UNICEF sheet, in the order pivot_table leaves them *)
HealthNames == <<CountryX, SubSaharanAfrica, USA>>

(* Region/country values of the population projections sheet *)
PopulationNames == {CountryX, UnitedStatesOfAmerica, SubSaharanAfrica}

RawNames ==
    LET known == DOMAIN country_mapping \cup {country_mapping[k] : k \in DOMAIN country_mapping}
    IN  known \cup {<<" ">> \o k : k \in known} \cup {k \o <<" ">> : k \in known}

AllNames ==
    LET raw == MortalityNames \cup {HealthNames[i] : i \in DOMAIN HealthNames}
                   \cup PopulationNames \cup RawNames \cup FilterNames
    IN  raw \cup {StandardizeName(x, country_mapping) : x \in raw}

----------------------------------------------------------------------------
(* filter_individual_countries: the regional-aggregate patterns *)

regional_patterns == <<
    [re |-> <<"A","f","r","i","c","a">>, anchored |-> TRUE],
    [re |-> <<"A","s","i","a">>, anchored |-> TRUE],
    [re |-> <<"E","u","r","o","p","e">>, anchored |-> TRUE],
    [re |-> <<"A","m","e","r","i","c","a">>, anchored |-> FALSE],
    [re |-> <<"W","o","r","l","d">>, anchored |-> FALSE],
    [re |-> <<"D","e","v","e","l","o","p","e","d">>, anchored |-> FALSE],
    [re |-> <<"D","e","v","e","l","o","p","i","n","g">>, anchored |-> FALSE],
    [re |-> <<"L","e","a","s","t"," ","d","e","v","e","l","o","p","e","d">>, anchored |-> FALSE],
    [re |-> <<"L","a","n","d","ANY","l","o","c","k","e","d">>, anchored |-> FALSE],
    [re |-> <<"S","m","a","l","l"," ","i","s","l","a","n","d">>, anchored |-> FALSE],
    [re |-> <<"S","u","b","-","S","a","h","a","r","a","n">>, anchored |-> FALSE],
    [re |-> <<"N","o","r","t","h","e","r","n"," ","A","f","r","i","c","a">>, anchored |-> FALSE],
    [re |-> <<"E","a","s","t","e","r","n"," ","A","f","r","i","c","a">>, anchored |-> FALSE],
    [re |-> <<"W","e","s","t","e","r","n"," ","A","f","r","i","c","a">>, anchored |-> FALSE],
    [re |-> <<"M","i","d","d","l","e"," ","A","f","r","i","c","a">>, anchored |-> FALSE],
    [re |-> <<"S","o","u","t","h","e","r","n"," ","A","f","r","i","c","a">>, anchored |-> FALSE],
    [re |-> <<"E","a","s","t","e","r","n"," ","A","s","i","a">>, anchored |-> FALSE],
    [re |-> <<"S","o","u","t","h","-","e","a","s","t","e","r","n"," ","A","s","i","a">>, anchored |-> FALSE],
    [re |-> <<"S","o","u","t","h","e","r","n"," ","A","s","i","a">>, anchored |-> FALSE],
    [re |-> <<"W","e","s","t","e","r","n"," ","A","s","i","a">>, anchored |-> FALSE],
    [re |-> <<"C","e","n","t","r","a","l"," ","A","s","i","a">>, anchored |-> FALSE],
    [re |-> <<"E","a","s","t","e","r","n"," ","E","u","r","o","p","e">>, anchored |-> FALSE],
    [re |-> <<"N","o","r","t","h","e","r","n"," ","E","u","r","o","p","e">>, anchored |-> FALSE],
    [re |-> <<"S","o","u","t","h","e","r","n"," ","E","u","r","o","p","e">>, anchored |-> FALSE],
    [re |-> <<"W","e","s","t","e","r","n"," ","E","u","r","o","p","e">>, anchored |-> FALSE],
    [re |-> <<"C","a","r","i","b","b","e","a","n">>, anchored |-> FALSE],
    [re |-> <<"C","e","n","t","r","a","l"," ","A","m","e","r","i","c","a">>, anchored |-> FALSE],
    [re |-> <<"S","o","u","t","h"," ","A","m","e","r","i","c","a">>, anchored |-> FALSE],
    [re |-> <<"N","o","r","t","h","e","r","n"," ","A","m","e","r","i","c","a">>, anchored |-> FALSE],
    [re |-> <<"O","c","e","a","n","i","a">>, anchored |-> FALSE],
    [re |-> <<"P","o","l","y","n","e","s","i","a">>, anchored |-> FALSE],
    [re |-> <<"M","e","l","a","n","e","s","i","a">>, anchored |-> FALSE],
    [re |-> <<"M","i","c","r","o","n","e","s","i","a">>, anchored |-> FALSE],
    [re |-> <<"M","o","r","e"," ","d","e","v","e","l","o","p","e","d">>, anchored |-> FALSE],
    [re |-> <<"L","e","s","s"," ","d","e","v","e","l","o","p","e","d">>, anchored |-> FALSE],
    [re |-> <<"H","i","g","h"," ","i","n","c","o","m","e">>, anchored |-> FALSE],
    [re |-> <<"U","p","p","e","r"," ","m","i","d","d","l","e"," ","i","n","c","o","m","e">>, anchored |-> FALSE],
    [re |-> <<"L","o","w","e","r"," ","m","i","d","d","l","e"," ","i","n","c","o","m","e">>, anchored |-> FALSE],
    [re |-> <<"L","o","w"," ","i","n","c","o","m","e">>, anchored |-> FALSE]
>>

(* a search that respects letter case *)
MatchAt_case_sensitive(s, p, i) ==
    /\ i >= 1
    /\ i + Len(p) - 1 <= Len(s)
    /\ \A j \in 1..Len(p) : p[j] = "ANY" \/ s[i + j - 1] = p[j]

(* re.search of one literal pattern ("ANY" stands for the regex dot), ignoring case *)
MatchAt(s, p, i) ==
    /\ i >= 1
    /\ i + Len(p) - 1 <= Len(s)
    /\ \A j \in 1..Len(p) : p[j] = "ANY" \/ lower(s[i + j - 1]) = lower(p[j])

SearchPattern(s, pat) ==
    IF pat.anchored
    THEN MatchAt(s, pat.re, Len(s) - Len(pat.re) + 1)
    ELSE \E i \in 1..Len(s) : MatchAt(s, pat.re, i)

(* r'\(.*SDGRC.*\)' : "(" ... "SDGRC" ... ")" in this order *)
SearchSDGRC(s) ==
    \E i \in 1..Len(s) :
        /\ s[i] = "("
        /\ \E j \in (i + 1)..Len(s) :
            /\ MatchAt(s, <<"S","D","G","R","C">>, j)
            /\ \E k \in (j + 5)..Len(s) : s[k] = ")"

str_contains(s) ==
    \/ SearchSDGRC(s)
    \/ \E n \in DOMAIN regional_patterns : SearchPattern(s, regional_patterns[n])

(* the boolean mask of Series.str.contains(combined_pattern, case=False), per name *)
mask == [s \in AllNames |-> str_contains(s)]

filter_individual_countries(df) ==
    LET Keep(r) == ~mask[r.Country]
    IN  [df EXCEPT !.rows = SelectSeq(df.rows, Keep)]

----------------------------------------------------------------------------
(* merge_datasets *)

(* the join key compared for inequality *)
MatchingRows_other_names(l, rrows) ==
    LET Other(r) == r.Country # l.Country
    IN  SelectSeq(rrows, Other)

MatchingRows(l, rrows) ==
    LET Same(r) == r.Country = l.Country
    IN  SelectSeq(rrows, Same)

RECURSIVE JoinRows(_, _)
JoinRows(lrows, rrows) ==
    IF lrows = <<>> THEN <<>>
    ELSE LET l == Head(lrows)
             m == MatchingRows(l, rrows)
         IN  [i \in 1..Len(m) |-> l @@ m[i]] \o JoinRows(Tail(lrows), rrows)

(* a join that keeps one row per key: the first match only *)
merge_first_match(left, right) ==
    LET joined == JoinRows(left.rows, right.rows)
        First(r) == r = joined[CHOOSE i \in DOMAIN joined :
                                  /\ joined[i].Country = r.Country
                                  /\ \A j \in 1..(i - 1) :
                                        joined[j].Country # r.Country]
    IN  [columns |-> left.columns \cup right.columns,
         rows    |-> SelectSeq(joined, First)]

(* DataFrame.merge(right, on='Country', how='inner') *)
merge(left, right) ==
    [columns |-> left.columns \cup right.columns,
     rows    |-> JoinRows(left.rows, right.rows)]

(* the tables merge_datasets builds on its way, in the order it builds them *)
merge_steps(unicef_data, population_data, mortality_data) ==
    LET country_mapping_ == create_country_mapping
        unicef_clean     == filter_individual_countries(
                                standardize_country_names(unicef_data, country_mapping_))
        population_clean == filter_individual_countries(
                                standardize_country_names(population_data, country_mapping_))
        mortality_clean  == filter_individual_countries(
                                standardize_country_names(mortality_data, country_mapping_))
        with_unicef      == merge(mortality_clean, unicef_clean)
    IN  [unicef_clean     |-> unicef_clean,
         population_clean |-> population_clean,
         mortality_clean  |-> mortality_clean,
         with_unicef      |-> with_unicef,
         merged           |-> IF Len(population_clean.rows) > 0
                              THEN merge(with_unicef, population_clean)
                              ELSE with_unicef]

merge_datasets(unicef_data, population_data, mortality_data) ==
    merge_steps(unicef_data, population_data, mortality_data).merged

----------------------------------------------------------------------------
(* calculate_population_weighted_coverage *)

RatAdd(x, y) == Rat(x.num * y.den + y.num * x.den, x.den * y.den)

RatMul(x, y) == Rat(x.num * y.num, x.den * y.den)

RatDiv(x, y) == Rat(x.num * y.den, x.den * y.num)

RatAbs(x) == [num |-> Abs(x.num), den |-> x.den]

RECURSIVE Sum(_)
Sum(xs) == IF xs = <<>> THEN Num(0) ELSE RatAdd(Head(xs), Sum(Tail(xs)))

RECURSIVE Min(_)
Min(xs) ==
    IF Len(xs) = 1 THEN xs[1]
    ELSE LET m == Min(Tail(xs)) IN IF Leq(Head(xs), m) THEN Head(xs) ELSE m

RECURSIVE Max(_)
Max(xs) ==
    IF Len(xs) = 1 THEN xs[1]
    ELSE LET m == Max(Tail(xs)) IN IF Leq(m, Head(xs)) THEN Head(xs) ELSE m

RECURSIVE Insert(_, _)
Insert(x, sorted) ==
    IF sorted = <<>> THEN <<x>>
    ELSE IF Leq(x, Head(sorted)) THEN <<x>> \o sorted
    ELSE <<Head(sorted)>> \o Insert(x, Tail(sorted))

RECURSIVE Sort(_)
Sort(xs) == IF xs = <<>> THEN <<>> ELSE Insert(Head(xs), Sort(Tail(xs)))

Median(xs) ==
    LET s == Sort(xs)
        n == Len(s)
    IN  IF n % 2 = 1 THEN s[(n + 1) \div 2]
        ELSE RatDiv(RatAdd(s[n \div 2], s[n \div 2 + 1]), Num(2))

Column(rows, c) == [i \in DOMAIN rows |-> rows[i][c]]

(* the weighted sum divided by the number of values instead of the weights *)
average_by_count(a, w) ==
    LET scl == Sum(w)
    IN  IF scl = Num(0) THEN [raised |-> "ZeroDivisionError"]
        ELSE [value |-> RatDiv(Sum([i \in DOMAIN a |-> RatMul(a[i], w[i])]), Num(Len(a)))]

(* np.average(a, weights=w): raises when the weights sum to zero *)
average(a, w) ==
    LET scl == Sum(w)
    IN  IF scl = Num(0) THEN [raised |-> "ZeroDivisionError"]
        ELSE [value |-> RatDiv(Sum([i \in DOMAIN a |-> RatMul(a[i], w[i])]), scl)]

(* the weights taken with their sign *)
abs_weights_signed(weights) == weights

abs_weights(weights) == [i \in DOMAIN weights |-> RatAbs(weights[i])]

(* the births summed by magnitude *)
total_births_abs(weights) == Sum([i \in DOMAIN weights |-> RatAbs(weights[i])])

total_births(weights) == Sum(weights)

(* an empty group reported with a coverage of zero *)
EmptySummary_zero_coverage(indicator, track_status) ==
    [track_status      |-> track_status,
     indicator         |-> indicator,
     n_countries       |-> 0,
     total_births      |-> Num(0),
     weighted_coverage |-> Num(0),
     min_coverage      |-> NaN,
     max_coverage      |-> NaN,
     median_coverage   |-> NaN,
     countries         |-> <<>>]

EmptySummary(indicator, track_status) ==
    [track_status      |-> track_status,
     indicator         |-> indicator,
     n_countries       |-> 0,
     total_births      |-> Num(0),
     weighted_coverage |-> NaN,
     min_coverage      |-> NaN,
     max_coverage      |-> NaN,
     median_coverage   |-> NaN,
     countries         |-> <<>>]

(* the rows kept only when no indicator at all is null *)
Subset_complete_rows(df, indicator, track_status) ==
    LET Keep(r) == /\ r.Mortality_Status_Binary = track_status
                   /\ notna(r.ANC4)
                   /\ notna(r.SBA)
                   /\ notna(r.Births_2022)
    IN  SelectSeq(df.rows, Keep)

Subset(df, indicator, track_status) ==
    LET Keep(r) == /\ r.Mortality_Status_Binary = track_status
                   /\ notna(r[indicator])
                   /\ notna(r.Births_2022)
    IN  SelectSeq(df.rows, Keep)

calculate_population_weighted_coverage(df, indicator, track_status) ==
    IF ~({"Mortality_Status_Binary", indicator, "Births_2022"} \subseteq df.columns)
    THEN [raised |-> "KeyError"]
    ELSE
    LET subset == Subset(df, indicator, track_status)
    IN  IF Len(subset) = 0 THEN EmptySummary(indicator, track_status)
        ELSE
        LET weights         == Column(subset, "Births_2022")
            coverage_values == Column(subset, indicator)
            avg             == average(coverage_values, abs_weights(weights))
        IN  IF "raised" \in DOMAIN avg THEN avg
            ELSE
            [track_status      |-> track_status,
             indicator         |-> indicator,
             n_countries       |-> Len(subset),
             total_births      |-> total_births(weights),
             weighted_coverage |-> avg.value,
             min_coverage      |-> Min(coverage_values),
             max_coverage      |-> Max(coverage_values),
             median_coverage   |-> Median(coverage_values),
             countries         |-> Column(subset, "Country")]

----------------------------------------------------------------------------
(* The stages as calls on a heap of tables: the heap is the sequence of the
   DataFrame objects alive, a reference is a position in it, and a call gives
   the heap it leaves and the reference (0: no table) it returns *)

(* DataFrame.copy(): a new object with the content of another *)
copy(heap, ref) ==
    [heap |-> Append(heap, heap[ref]), returned |-> Len(heap) + 1]

(* the column written into the object the caller passed *)
standardize_country_names_in_place(heap, ref, mapping) ==
    [heap     |-> [heap EXCEPT ![ref] = standardize_country_names(@, mapping)],
     returned |-> ref]

(* df = df.copy(), then the Country column of the copy is assigned twice *)
standardize_country_names_call(heap, ref, mapping) ==
    LET df == copy(heap, ref)
    IN  [heap     |-> [df.heap EXCEPT
                          ![df.returned] = standardize_country_names(@, mapping)],
         returned |-> df.returned]

(* df[mask].copy(): the selection is a new object *)
filter_individual_countries_call(heap, ref) ==
    [heap     |-> Append(heap, filter_individual_countries(heap[ref])),
     returned |-> Len(heap) + 1]

(* subset = df[...].copy(); the summary returned is a dict, not a table *)
calculate_population_weighted_coverage_call(heap, ref, indicator, track_status) ==
    LET df == heap[ref]
    IN  [heap     |-> IF {"Mortality_Status_Binary", indicator, "Births_2022"}
                            \subseteq df.columns
                      THEN Append(heap, [columns |-> df.columns,
                                         rows    |-> Subset(df, indicator, track_status)])
                      ELSE heap,
         returned |-> 0,
         summary  |-> calculate_population_weighted_coverage(df, indicator,
                                                             track_status)]

----------------------------------------------------------------------------
(* analyze_coverage_by_indicator and create_summary_table *)

RatSub(x, y) == Rat(x.num * y.den - y.num * x.den, x.den * y.den)

(* numpy float division: by zero it gives inf or nan, it does not raise *)
float_div(x, y) ==
    IF y.num = 0
    THEN IF x.num = 0 THEN NaN ELSE [inf |-> IF x.num > 0 THEN 1 ELSE -1]
    ELSE RatDiv(x, y)

(* `x is not np.nan` for both weighted coverages *)
HasGap(on, off) ==
    /\ on.weighted_coverage # NaN
    /\ off.weighted_coverage # NaN

analyze_coverage_by_indicator(df, indicator) ==
    LET on == calculate_population_weighted_coverage(df, indicator, "on-track")
    IN  IF "raised" \in DOMAIN on THEN on
        ELSE
        LET off == calculate_population_weighted_coverage(df, indicator, "off-track")
        IN  IF "raised" \in DOMAIN off THEN off
            ELSE
            LET results == ("on-track" :> on) @@ ("off-track" :> off)
            IN  IF HasGap(on, off)
                THEN LET coverage_gap == RatSub(on.weighted_coverage, off.weighted_coverage)
                         relative     == float_div(coverage_gap, off.weighted_coverage)
                     IN  results
                           @@ ("coverage_gap" :> coverage_gap)
                           @@ ("relative_difference" :>
                                  IF "num" \in DOMAIN relative
                                  THEN RatMul(relative, Num(100)) ELSE relative)
                ELSE results

SummaryRow(indicator, status, r) ==
    [Indicator                 |-> indicator,
     Track_Status              |-> status,
     N_Countries               |-> Num(r.n_countries),
     Total_Births              |-> r.total_births,
     Weighted_Coverage_Percent |-> r.weighted_coverage,
     Min_Coverage_Percent      |-> r.min_coverage,
     Max_Coverage_Percent      |-> r.max_coverage,
     Median_Coverage_Percent   |-> r.median_coverage]

GapRow(indicator, results) ==
    [Indicator                 |-> indicator,
     Track_Status              |-> "gap_analysis",
     N_Countries               |-> NaN,
     Total_Births              |-> NaN,
     Weighted_Coverage_Percent |-> results["coverage_gap"],
     Min_Coverage_Percent      |-> NaN,
     Max_Coverage_Percent      |-> NaN,
     Median_Coverage_Percent   |-> NaN]

(* a row written only for a group that has countries *)
StatusRows_without_empty_groups(indicator, results) ==
    (IF "on-track" \in DOMAIN results /\ results["on-track"].n_countries > 0
     THEN <<SummaryRow(indicator, "on-track", results["on-track"])>> ELSE <<>>)
    \o
    (IF "off-track" \in DOMAIN results /\ results["off-track"].n_countries > 0
     THEN <<SummaryRow(indicator, "off-track", results["off-track"])>> ELSE <<>>)

StatusRows(indicator, results) ==
    (IF "on-track" \in DOMAIN results
     THEN <<SummaryRow(indicator, "on-track", results["on-track"])>> ELSE <<>>)
    \o
    (IF "off-track" \in DOMAIN results
     THEN <<SummaryRow(indicator, "off-track", results["off-track"])>> ELSE <<>>)

GapRows(indicator, results) ==
    IF "coverage_gap" \in DOMAIN results THEN <<GapRow(indicator, results)>> ELSE <<>>

create_summary_table(anc4_results, sba_results) ==
    StatusRows("ANC4", anc4_results) \o StatusRows("SBA", sba_results)
        \o GapRows("ANC4", anc4_results) \o GapRows("SBA", sba_results)

(* main of the coverage script: both indicators, then the summary table *)
coverage_main(df) ==
    LET anc4_results == analyze_coverage_by_indicator(df, "ANC4")
    IN  IF "raised" \in DOMAIN anc4_results THEN anc4_results
        ELSE
        LET sba_results == analyze_coverage_by_indicator(df, "SBA")
        IN  IF "raised" \in DOMAIN sba_results THEN sba_results
            ELSE [anc4_results  |-> anc4_results,
                  sba_results   |-> sba_results,
                  summary_table |-> create_summary_table(anc4_results, sba_results)]

----------------------------------------------------------------------------
(* clean_mortality_classification *)

(* the empty cell of a text column: no text is made of this one element *)
NoText == <<"NaN">>

isna(x) == x = NoText

(* sub in s *)
Contains(s, sub) ==
    \E i \in 1..(Len(s) - Len(sub) + 1) : SubSeq(s, i, i + Len(sub) - 1) = sub

achieved == <<"a","c","h","i","e","v","e","d">>

on_track == <<"o","n","-","t","r","a","c","k">>

acceleration_needed == <<"a","c","c","e","l","e","r","a","t","i","o","n"," ","n","e","e","d","e","d">>

(* the classifier without str.lower() *)
classify_status_case_sensitive(status) ==
    IF isna(status) THEN "nan"
    ELSE IF status \in {achieved, on_track} THEN "on-track"
    ELSE "off-track"

(* a missing label is the string "nan"; the two labels are the strings themselves *)
classify_status(status) ==
    IF isna(status) THEN "nan"
    ELSE LET status_lower == LowerText(status)
         IN  IF status_lower \in {achieved, on_track} THEN "on-track"
             ELSE IF Contains(status_lower, acceleration_needed) THEN "off-track"
             ELSE "off-track"

clean_mortality_classification(df) ==
    [columns |-> {"Country", "ISO3Code", "Mortality_Status_Binary"},
     rows    |-> [i \in DOMAIN df.rows |->
                     [Country                 |-> df.rows[i].OfficialName,
                      ISO3Code                |-> df.rows[i].ISO3Code,
                      Mortality_Status_Binary |-> classify_status(df.rows[i].Status_U5MR)]]]

----------------------------------------------------------------------------
(* clean_unicef_data *)

YearFrom == 2018

YearTo == 2022

(* Series.between(left, right): both ends included *)
between(x, left, right) == left <= x /\ x <= right

AntenatalCare == <<"A","n","t","e","n","a","t","a","l"," ","c","a","r","e"," ">>

AntenatalCare4Plus == AntenatalCare \o <<"4", "+">>

SkilledBirthAttendant == <<"S","k","i","l","l","e","d"," ","b","i","r","t","h"," ","a","t","t","e","n","d","a","n","t">>

(* re.search of 'Antenatal care 4+': the text up to the blank, then one or more "4" *)
str_contains_anc4(x) ==
    \E i \in 1..(Len(x) - Len(AntenatalCare)) :
        /\ SubSeq(x, i, i + Len(AntenatalCare) - 1) = AntenatalCare
        /\ x[i + Len(AntenatalCare)] = "4"

(* Series.str.contains(pattern, na=False) *)
anc4_mask(x) == ~isna(x) /\ str_contains_anc4(x)

sba_mask(x) == ~isna(x) /\ Contains(x, SkilledBirthAttendant)

(* the relabelling lambda: a plain substring test, and 'SBA' for everything else *)
Indicator_Clean(x) == IF Contains(x, AntenatalCare4Plus) THEN "ANC4" ELSE "SBA"

(* the rows left by the year filter and the indicator filter, relabelled *)
Relabelled(df) ==
    LET kept == SelectSeq(df.rows, LAMBDA r :
                    /\ between(r.TIME_PERIOD, YearFrom, YearTo)
                    /\ (anc4_mask(r.Indicator) \/ sba_mask(r.Indicator)))
    IN  [i \in DOMAIN kept |->
            kept[i] @@ [Indicator_Clean |-> Indicator_Clean(kept[i].Indicator)]]

GroupKey(r) == <<r.Geographic_area, r.Indicator_Clean>>

GroupKeys(rows) == {GroupKey(rows[i]) : i \in DOMAIN rows}

(* the rows sort_values('TIME_PERIOD') can leave last in their group: the sort
   is not a stable one, so any row of the greatest year can be the last *)
MostRecent(rows, g) ==
    {i \in DOMAIN rows :
        /\ GroupKey(rows[i]) = g
        /\ \A j \in DOMAIN rows :
              GroupKey(rows[j]) = g => rows[j].TIME_PERIOD <= rows[i].TIME_PERIOD}

(* the outcomes of groupby(...).tail(1): one row per group *)
Tails(rows) ==
    {pick \in [GroupKeys(rows) -> DOMAIN rows] :
        \A g \in GroupKeys(rows) : pick[g] \in MostRecent(rows, g)}

(* the printable characters in code-point order (the backquote left out) *)
Ascii ==
    <<" ", "!", "\"", "#", "$", "%", "&", "'", "(", ")", "*", "+", ",", "-", ".", "/",
      "0", "1", "2", "3", "4", "5", "6", "7", "8", "9", ":", ";", "<", "=", ">", "?",
      "@", "A", "B", "C", "D", "E", "F", "G", "H", "I", "J", "K", "L", "M", "N", "O",
      "P", "Q", "R", "S", "T", "U", "V", "W", "X", "Y", "Z", "[", "\\", "]", "^", "_",
      "a", "b", "c", "d", "e", "f", "g", "h", "i", "j", "k", "l", "m", "n", "o",
      "p", "q", "r", "s", "t", "u", "v", "w", "x", "y", "z", "{", "|", "}", "~">>

ord(ch) == CHOOSE i \in DOMAIN Ascii : Ascii[i] = ch

RECURSIVE TextLess(_, _)
TextLess(a, b) ==
    IF a = <<>> THEN b # <<>>
    ELSE IF b = <<>> THEN FALSE
    ELSE IF Head(a) = Head(b) THEN TextLess(Tail(a), Tail(b))
    ELSE ord(Head(a)) < ord(Head(b))

RECURSIVE SortTexts(_)
SortTexts(S) ==
    IF S = {} THEN <<>>
    ELSE LET first == CHOOSE x \in S : \A y \in S \ {x} : TextLess(x, y)
         IN  <<first>> \o SortTexts(S \ {first})

(* the groups kept although their value is null *)
agged_with_nulls(rows, pick) == GroupKeys(rows)

(* pivot_table's aggregation: a group whose value is null is dropped *)
agged(rows, pick) == {g \in GroupKeys(rows) : notna(rows[pick[g]].OBS_VALUE)}

(* pivot_table(index='Geographic area', columns='Indicator_Clean',
   values='OBS_VALUE', aggfunc='first').reset_index(), renamed *)
pivot_table(rows, pick) ==
    LET groups  == agged(rows, pick)
        index   == SortTexts({g[1] : g \in groups})
        labels  == {g[2] : g \in groups}
    IN  [columns |-> {"Country"} \cup labels,
         rows    |-> [i \in DOMAIN index |->
                         [Country |-> index[i]] @@
                         [l \in labels |->
                             IF <<index[i], l>> \in groups
                             THEN rows[pick[<<index[i], l>>]].OBS_VALUE
                             ELSE NaN]]]

(* the printed counts read both columns: a missing one raises *)
clean_unicef_data(df, pick) ==
    LET df_wide == pivot_table(Relabelled(df), pick)
    IN  IF {"ANC4", "SBA"} \subseteq df_wide.columns
        THEN df_wide
        ELSE [raised |-> "KeyError"]

----------------------------------------------------------------------------
(* clean_population_data *)

PopulationColumns == {"Country", "Births_2022"}

(* a text cell of a column that also holds numbers *)
Text(chars) == [text |-> chars]

(* no column: Python's None *)
None == <<"None">>

Year == <<"Y","e","a","r">>

country_terms == {<<"c","o","u","n","t","r","y">>,
                  <<"r","e","g","i","o","n">>,
                  <<"a","r","e","a">>}

births_term == <<"b","i","r","t","h","s">>

birth_terms == {<<"b","i","r","t","h">>,
                <<"n","a","t","a","l","i","t","y">>}

(* any(term in str(col).lower() for term in terms) *)
AnyTermIn(col, terms) ==
    LET low == LowerText(col)
    IN  \E term \in terms : Contains(low, term)

(* the first column of the sheet holding one of the terms, None when none does *)
FirstColumn(columns, terms) ==
    IF \E i \in DOMAIN columns : AnyTermIn(columns[i], terms)
    THEN columns[CHOOSE i \in DOMAIN columns :
                    /\ AnyTermIn(columns[i], terms)
                    /\ \A j \in 1..(i - 1) : ~AnyTermIn(columns[j], terms)]
    ELSE None

country_col(columns) ==
    LET found == FirstColumn(columns, country_terms)
    IN  IF found = None THEN columns[1] ELSE found

(* the births column looked for under the one term 'births' only *)
births_col_without_fallback(columns) ==
    FirstColumn(columns, {births_term})

(* a column holding 'births', else a column holding 'birth' or 'natality' *)
births_col(columns) ==
    LET found == FirstColumn(columns, {births_term})
    IN  IF found = None
        THEN FirstColumn(columns, birth_terms)
        ELSE found

Digits == <<"0", "1", "2", "3", "4", "5", "6", "7", "8", "9">>

IsDigits(chars) ==
    /\ chars # <<>>
    /\ \A i \in DOMAIN chars : \E d \in DOMAIN Digits : Digits[d] = chars[i]

RECURSIVE Decimal(_)
Decimal(chars) ==
    IF chars = <<>> THEN 0
    ELSE Decimal(SubSeq(chars, 1, Len(chars) - 1)) * 10
           + (CHOOSE d \in 0..9 : Digits[d + 1] = chars[Len(chars)])

(* the number a text spells: digits, with a sign or without; NaN otherwise *)
ParseNumber(chars) ==
    IF IsDigits(chars) THEN Num(Decimal(chars))
    ELSE IF chars # <<>> /\ chars[1] = "-" /\ IsDigits(Tail(chars))
    THEN Num(0 - Decimal(Tail(chars)))
    ELSE NaN

(* pd.to_numeric(x, errors='coerce') on one cell *)
to_numeric(x) ==
    IF "num" \in DOMAIN x THEN x
    ELSE IF "text" \in DOMAIN x THEN ParseNumber(x.text)
    ELSE NaN

(* the rows kept whatever their births value *)
dropna_nothing(rows) == rows

(* DataFrame.dropna(subset=['Births_2022']) *)
dropna(rows) == SelectSeq(rows, LAMBDA r : notna(r.Births_2022))

(* Column names of the population sheet *)
Region == <<"R","e","g","i","o","n",","," ","s","u","b","r","e","g","i","o","n",","," ","c","o","u","n","t","r","y"," ","o","r"," ","a","r","e","a"," ","*">>

BirthsThousands == <<"B","i","r","t","h","s"," ","(","t","h","o","u","s","a","n","d","s",")">>

BirthRate == <<"B","i","r","t","h"," ","r","a","t","e">>

TotalBIRTHS == <<"T","o","t","a","l"," ","B","I","R","T","H","S">>

Deaths == <<"D","e","a","t","h","s"," ","(","t","h","o","u","s","a","n","d","s",")">>

Location == <<"L","o","c","a","t","i","o","n">>

Natality == <<"N","a","t","a","l","i","t","y">>

Time == <<"T","i","m","e">>

(* the column layouts a sheet is drawn with, columns in their order *)
PopulationLayouts ==
    {<<Region, Year, BirthsThousands>>,
     <<Region, Year, BirthRate, TotalBIRTHS>>,
     <<Region, Year, Deaths, BirthRate>>,
     <<Region, Year, Deaths>>,
     <<Location, Year, Natality>>,
     <<Region, Time, Deaths>>}

(* the two columns picked, worked out once per layout *)
picked_columns ==
    [columns \in PopulationLayouts |->
        [country |-> country_col(columns), births |-> births_col(columns)]]

(* a row of the sheet holds its cells in the order of the columns *)
ColumnIndex(columns, col) == CHOOSE i \in DOMAIN columns : columns[i] = col

Cell(df, r, col) == r[ColumnIndex(df.columns, col)]

(* the table returned or the error raised, and whether the warning is printed *)
clean_population_data(df) ==
    LET country  == picked_columns[df.columns].country
        births   == picked_columns[df.columns].births
        df_2022  == SelectSeq(df.rows, LAMBDA r : Cell(df, r, Year) = 2022)
        pop_data == [i \in DOMAIN df_2022 |->
                        [Country     |-> Cell(df, df_2022[i], country),
                         Births_2022 |-> to_numeric(Cell(df, df_2022[i], births))]]
    IN  IF \A i \in DOMAIN df.columns : df.columns[i] # Year
        THEN [returned |-> [raised |-> "KeyError"], warning |-> FALSE]
        ELSE IF births # None
        THEN [returned |-> [columns |-> PopulationColumns, rows |-> dropna(pop_data)],
              warning  |-> FALSE]
        ELSE [returned |-> [columns |-> PopulationColumns, rows |-> <<>>],
              warning  |-> TRUE]

----------------------------------------------------------------------------
(* Input domains *)

ISO3Of(name) ==
    IF name = CountryX THEN "XXX"
    ELSE IF name = UnitedStates THEN "USA"
    ELSE "NA"

NaNStatus == "nan"

TrackStatuses == {"on-track", "off-track"}

Indicators == {"ANC4", "SBA"}

MergeCoverageCells == {<<Num(40), NaN>>, <<Num(80), Num(90)>>}

MergeBirths == {Num(1000000), Num(-5000)}

BirthsValues == {Num(-5000), Num(0), Num(100), Num(300)}

MergedCountries == <<CountryA, CountryB, CountryC, CountryD>>

SeqsUpTo(S, n) == UNION {[1..k -> S] : k \in 0..n}

MortalityColumns == {"Country", "ISO3Code", "Mortality_Status_Binary"}

UnicefColumns == {"Country", "ANC4", "SBA"}

MergedColumns == MortalityColumns \cup UnicefColumns \cup PopulationColumns

EmptyTable == [columns |-> {}, rows |-> <<>>]

MortalityRows ==
    {[Country |-> c, ISO3Code |-> ISO3Of(c), Mortality_Status_Binary |-> s] :
        c \in MortalityNames, s \in TrackStatuses}

MortalityTables(n) ==
    {[columns |-> MortalityColumns, rows |-> rs] : rs \in [1..n -> MortalityRows]}

(* the wide UNICEF table: one row per Geographic area, ordered by it *)
UnicefTables(n) ==
    {[columns |-> UnicefColumns,
      rows    |-> [i \in 1..n |->
                      [Country |-> HealthNames[idx[i]],
                       ANC4    |-> cells[i][1],
                       SBA     |-> cells[i][2]]]] :
        idx \in {s \in [1..n -> DOMAIN HealthNames] :
                    \A i \in 1..(n - 1) : s[i] < s[i + 1]},
        cells \in [1..n -> MergeCoverageCells]}

PopulationRows ==
    {[Country |-> c, Births_2022 |-> b] : c \in PopulationNames, b \in MergeBirths}

PopulationTables(n) ==
    {[columns |-> PopulationColumns, rows |-> rs] : rs \in [1..n -> PopulationRows]}

(* the (ANC4, SBA) cells of a merged row: the pivot leaves no row with both null *)
IndicatorCells ==
    {<<Num(20), NaN>>, <<Num(80), NaN>>, <<Num(80), Num(90)>>, <<NaN, Num(90)>>}

MergedCells ==
    {[Mortality_Status_Binary |-> st, ANC4 |-> c[1], SBA |-> c[2], Births_2022 |-> b] :
        st \in TrackStatuses \cup {NaNStatus},
        c  \in IndicatorCells,
        b  \in BirthsValues \cup {NaN}}

MergedTables ==
    {[columns |-> MergedColumns,
      rows    |-> [i \in 1..Len(cs) |->
                      [Country |-> MergedCountries[i], ISO3Code |-> "NA"] @@ cs[i]]] :
        cs \in SeqsUpTo(MergedCells, MaxRows)}

(* a synonym table other than the shipped one: a target that is itself a key,
   a key in another letter case, a key inside a longer name, a padded target *)
chained_mapping ==
       (<<"A">> :> <<"B">>)
    @@ (<<"B">> :> <<" ","C"," ">>)
    @@ (<<"u","s","a">> :> <<"D">>)

MappingNames == {"None", "chained"}

(* mapping=None stands for the shipped table *)
MappingGiven(m) == IF m = "None" THEN create_country_mapping ELSE chained_mapping

(* Status.U5MR cells: the texts of the sheet, look-alikes, and the empty cell *)
StatusTexts ==
    {NoText,
     achieved,
     <<"A","c","h","i","e","v","e","d">>,
     on_track,
     <<"O","N","-","T","R","A","C","K">>,
     <<"O","n"," ","T","r","a","c","k">>,
     <<" ","a","c","h","i","e","v","e","d">>,
     <<"A","c","c","e","l","e","r","a","t","i","o","n"," ","N","e","e","d","e","d">>,
     <<"S","o","m","e"," ","O","t","h","e","r"," ","C","a","t","e","g","o","r","y">>,
     <<>>}

SheetCountries == <<CountryX, UnitedStates, SubSaharanAfrica>>

MortalitySheets(n) ==
    {[columns |-> {"OfficialName", "ISO3Code", "Status_U5MR"},
      rows    |-> [i \in 1..Len(st) |->
                      [OfficialName |-> SheetCountries[i],
                       ISO3Code     |-> ISO3Of(SheetCountries[i]),
                       Status_U5MR  |-> st[i]]]] :
        st \in SeqsUpTo(StatusTexts, n)}

NoResult == [pending |-> TRUE]

NoCounts == [pending |-> TRUE]

NoRequest == [pending |-> TRUE]

(* Indicator cells of the UNICEF sheet: the two indicators, a name the pattern
   'Antenatal care 4+' finds without holding it, another indicator, no name *)
AntenatalCare4PlusVisits == AntenatalCare4Plus \o <<" ","v","i","s","i","t","s">>

AntenatalCare4Visits == AntenatalCare \o <<"4"," ","v","i","s","i","t","s">>

AntenatalCare1PlusVisits == AntenatalCare \o <<"1","+"," ","v","i","s","i","t","s">>

UnicefRecord(area, indicator, year, value) ==
    [Geographic_area |-> area, Indicator |-> indicator,
     TIME_PERIOD |-> year, OBS_VALUE |-> value]

UnicefRecords ==
    {UnicefRecord(CountryX, AntenatalCare4PlusVisits, y, v) :
        y \in {2017, 2018, 2022, 2023}, v \in {Num(80), Num(90)}}
    \cup {UnicefRecord(CountryX, SkilledBirthAttendant, 2022, v) : v \in {Num(90), NaN}}
    \cup {UnicefRecord(CountryX, x, 2022, Num(40)) :
            x \in {AntenatalCare4Visits, AntenatalCare1PlusVisits, NoText}}
    \cup {UnicefRecord(USA, AntenatalCare4PlusVisits, 2022, v) : v \in {Num(80), NaN}}
    \cup {UnicefRecord(USA, SkilledBirthAttendant, 2022, Num(80))}

UnicefSheetColumns == {"Geographic_area", "Indicator", "TIME_PERIOD", "OBS_VALUE"}

UnicefSheets(n) ==
    {[columns |-> UnicefSheetColumns, rows |-> rs] :
        rs \in SeqsUpTo(UnicefRecords, n)}

(* the cleaned tables the health table is merged with *)
HealthMortalityData ==
    [columns |-> MortalityColumns,
     rows    |-> <<[Country |-> CountryX, ISO3Code |-> ISO3Of(CountryX),
                    Mortality_Status_Binary |-> "on-track"],
                   [Country |-> UnitedStates, ISO3Code |-> ISO3Of(UnitedStates),
                    Mortality_Status_Binary |-> "off-track"]>>]

HealthPopulationData ==
    {[columns |-> PopulationColumns, rows |-> <<>>],
     [columns |-> PopulationColumns,
      rows    |-> <<[Country |-> CountryX, Births_2022 |-> Num(1000000)],
                    [Country |-> UnitedStatesOfAmerica, Births_2022 |-> Num(1000000)]>>]}

(* cells of a births column: a number, a text spelling one, a text spelling none, null *)
PopulationCells ==
    {Num(1200), Text(<<"9", "5", "0">>), Text(<<".", ".", ".">>), NaN}

(* the rows of a sheet of three columns, and of four *)
PopulationRows3 ==
    {<<area, year, cell>> :
        area \in {CountryX, UnitedStatesOfAmerica},
        year \in {2021, 2022},
        cell \in PopulationCells}

PopulationRows4 ==
    {<<area, year, cell, other>> :
        area \in {CountryX, UnitedStatesOfAmerica},
        year \in {2021, 2022},
        cell \in PopulationCells,
        other \in {Num(300), NaN}}

PopulationSheetRows(layout) ==
    IF Len(layout) = 3 THEN PopulationRows3 ELSE PopulationRows4

warning_no_births == "Warning: Could not find births column in population data"

----------------------------------------------------------------------------
(* State *)

VARIABLES
    pc,               \* position in the run
    unicef_data,      \* output of clean_unicef_data
    population_data,  \* output of clean_population_data
    mortality_data,   \* output of clean_mortality_classification
    merged_data,      \* output of merge_datasets, input of the coverage analysis
    counts,           \* the row counts merge_datasets reports
    request,          \* the (indicator, track_status) the coverage analysis was asked for
    result,           \* what calculate_population_weighted_coverage returned or raised
    names_df,         \* a table under standardize_country_names
    history,          \* the successive values of its Country cell
    mapping_given,    \* which synonym table standardize_country_names is given
    raw_df,           \* a table before standardization and filtering
    filtered_df,      \* that table after filter_individual_countries
    unicef_sheet,     \* the rows of the 'Unicef data' sheet
    population_sheet, \* the 'Projections' sheet: its columns and rows
    mortality_sheet,  \* the rows of the mortality classification sheet
    analysis,         \* what the coverage script's main computed or raised
    printed,          \* the warnings printed by the cleaner that ran
    frame,            \* the last stage called on the heap: its tables before and after
    executor,         \* the ProjectExecutor: its lists, the step it is at, what it returned
    script_runs,      \* the scripts started as subprocesses, in order, and how each ended
    disk              \* the output files that exist

filter_vars == <<mapping_given, raw_df, filtered_df>>

sheets == <<unicef_sheet, population_sheet, mortality_sheet>>

workflow_vars == <<executor, script_runs, disk>>

vars == <<pc, unicef_data, population_data, mortality_data, merged_data,
          counts, request, result, names_df, history, filter_vars, sheets, analysis,
          printed, frame, workflow_vars>>

NoSheet == [pending |-> TRUE]

NoFrame == [pending |-> TRUE]

(* no workflow is being executed *)
NoWorkflow ==
    /\ executor = [pending |-> TRUE]
    /\ script_runs = <<>>
    /\ disk = {}

(* nothing is being filtered on its own *)
NoFilterRun ==
    /\ mapping_given = "None"
    /\ raw_df = EmptyTable
    /\ filtered_df = EmptyTable

(* no sheet is being cleaned *)
NoSheets ==
    /\ unicef_sheet = NoSheet
    /\ population_sheet = NoSheet
    /\ mortality_sheet = NoSheet

----------------------------------------------------------------------------
(* The pipeline: merge the three cleaned tables, then analyse one group *)

Init ==
    /\ pc = "cleaned"
    /\ \E m \in 0..MaxInputRows :
          \E h \in 0..(MaxInputRows - m) :
             \E p \in 0..(MaxInputRows - m - h) :
                /\ mortality_data \in MortalityTables(m)
                /\ unicef_data \in UnicefTables(h)
                /\ population_data \in PopulationTables(p)
    /\ merged_data = EmptyTable
    /\ counts = NoCounts
    /\ request = NoRequest
    /\ result = NoResult
    /\ analysis = NoResult
    /\ printed = <<>>
    /\ frame = NoFrame
    /\ NoWorkflow
    /\ names_df = EmptyTable
    /\ history = <<>>
    /\ NoFilterRun
    /\ NoSheets

MergeDatasets ==
    /\ pc \in {"cleaned", "population cleaned"}
    /\ LET steps == merge_steps(unicef_data, population_data, mortality_data)
       IN  /\ merged_data' = steps.merged
           /\ counts' = [unicef       |-> Len(steps.unicef_clean.rows),
                         population   |-> Len(steps.population_clean.rows),
                         mortality    |-> Len(steps.mortality_clean.rows),
                         after_unicef |-> Len(steps.with_unicef.rows)]
    /\ pc' = "merged"
    /\ UNCHANGED <<unicef_data, population_data, mortality_data, request, result,
                   names_df, history, filter_vars, sheets, analysis,
                   printed, frame,
                   workflow_vars>>

CalculateCoverage ==
    /\ pc = "merged"
    /\ \E indicator \in Indicators, track_status \in TrackStatuses :
          /\ request' = [indicator |-> indicator, track_status |-> track_status]
          /\ result' = calculate_population_weighted_coverage(merged_data, indicator,
                                                              track_status)
    /\ pc' = "analysed"
    /\ UNCHANGED <<unicef_data, population_data, mortality_data, merged_data,
                   counts, names_df, history, filter_vars, sheets, analysis,
                   printed, frame,
                   workflow_vars>>

Next == MergeDatasets \/ CalculateCoverage

Spec == Init /\ [][Next]_vars

----------------------------------------------------------------------------
(* The pipeline over mortality tables that spell one country in several ways *)

US == <<"U","S">>

CollisionNames == {USA, US, CountryX}

CollisionRows ==
    {[Country |-> c, ISO3Code |-> ISO3Of(c), Mortality_Status_Binary |-> st] :
        c \in CollisionNames, st \in TrackStatuses}

InitCollision ==
    /\ pc = "cleaned"
    /\ \E m \in 0..MaxCollisionRows :
          \E rs \in [1..m -> CollisionRows] :
             mortality_data = [columns |-> MortalityColumns, rows |-> rs]
    /\ \E h \in 1..2 : unicef_data \in UnicefTables(h)
    /\ population_data \in {t \in HealthPopulationData : Len(t.rows) > 0}
    /\ merged_data = EmptyTable
    /\ counts = NoCounts
    /\ request = NoRequest
    /\ result = NoResult
    /\ analysis = NoResult
    /\ printed = <<>>
    /\ frame = NoFrame
    /\ NoWorkflow
    /\ names_df = EmptyTable
    /\ history = <<>>
    /\ NoFilterRun
    /\ NoSheets

SpecCollision == InitCollision /\ [][Next]_vars

----------------------------------------------------------------------------
(* The coverage analysis alone, over merged tables of any content *)

InitCoverage ==
    /\ pc = "merged"
    /\ unicef_data = EmptyTable
    /\ population_data = EmptyTable
    /\ mortality_data = EmptyTable
    /\ merged_data \in MergedTables
    /\ counts = NoCounts
    /\ request = NoRequest
    /\ result = NoResult
    /\ analysis = NoResult
    /\ printed = <<>>
    /\ frame = NoFrame
    /\ NoWorkflow
    /\ names_df = EmptyTable
    /\ history = <<>>
    /\ NoFilterRun
    /\ NoSheets

NextCoverage == CalculateCoverage

SpecCoverage == InitCoverage /\ [][NextCoverage]_vars

----------------------------------------------------------------------------
(* The normalizer alone, applied repeatedly to one name *)

InitNormalize ==
    /\ pc = "names"
    /\ unicef_data = EmptyTable
    /\ population_data = EmptyTable
    /\ mortality_data = EmptyTable
    /\ merged_data = EmptyTable
    /\ counts = NoCounts
    /\ request = NoRequest
    /\ result = NoResult
    /\ analysis = NoResult
    /\ printed = <<>>
    /\ frame = NoFrame
    /\ NoWorkflow
    /\ \E x \in RawNames :
          /\ names_df = [columns |-> {"Country"}, rows |-> <<[Country |-> x]>>]
          /\ history = <<x>>
    /\ NoFilterRun
    /\ NoSheets

StandardizeCountryNames ==
    /\ pc = "names"
    /\ Len(history) < 3
    /\ names_df' = standardize_country_names(names_df, MappingGiven(mapping_given))
    /\ history' = Append(history, names_df'.rows[1].Country)
    /\ UNCHANGED <<pc, unicef_data, population_data, mortality_data, merged_data,
                   counts, request, result, filter_vars, sheets, analysis,
                   printed, frame,
                   workflow_vars>>

NextNormalize == StandardizeCountryNames

SpecNormalize == InitNormalize /\ [][NextNormalize]_vars

----------------------------------------------------------------------------
(* One table standardized and then filtered, as merge_datasets does to each input *)

(* a row keeps its pandas index label through both steps *)
FilterRows ==
    [Country : FilterNames, Births_2022 : {NaN, Num(100)}]

FilterTables(n) ==
    {[columns |-> {"index", "Country", "Births_2022"},
      rows    |-> [i \in 1..Len(rs) |-> [index |-> i] @@ rs[i]]] :
        rs \in SeqsUpTo(FilterRows, n)}

InitFilter ==
    /\ pc = "raw"
    /\ unicef_data = EmptyTable
    /\ population_data = EmptyTable
    /\ mortality_data = EmptyTable
    /\ merged_data = EmptyTable
    /\ counts = NoCounts
    /\ request = NoRequest
    /\ result = NoResult
    /\ analysis = NoResult
    /\ printed = <<>>
    /\ frame = NoFrame
    /\ NoWorkflow
    /\ names_df = EmptyTable
    /\ history = <<>>
    /\ mapping_given = "None"
    /\ raw_df \in FilterTables(MaxFilterRows)
    /\ filtered_df = EmptyTable
    /\ NoSheets

StandardizeTable ==
    /\ pc = "raw"
    /\ names_df' = standardize_country_names(raw_df, MappingGiven(mapping_given))
    /\ pc' = "standardized"
    /\ UNCHANGED <<unicef_data, population_data, mortality_data, merged_data,
                   counts, request, result, history, filter_vars, sheets, analysis,
                   printed, frame,
                   workflow_vars>>

FilterIndividualCountries ==
    /\ pc = "standardized"
    /\ filtered_df' = filter_individual_countries(names_df)
    /\ pc' = "filtered"
    /\ UNCHANGED <<unicef_data, population_data, mortality_data, merged_data,
                   counts, request, result, names_df, history, mapping_given,
                   raw_df, sheets, analysis,
                   printed, frame,
                   workflow_vars>>

NextFilter == StandardizeTable \/ FilterIndividualCountries

SpecFilter == InitFilter /\ [][NextFilter]_vars

----------------------------------------------------------------------------
(* The normalizer and the filter over the names the mapping table knows *)

MappingRows ==
    [Country : DOMAIN create_country_mapping, Births_2022 : {Num(100)}]

MappingTables(n) ==
    {[columns |-> {"index", "Country", "Births_2022"},
      rows    |-> [i \in 1..Len(rs) |-> [index |-> i] @@ rs[i]]] :
        rs \in SeqsUpTo(MappingRows, n)}

InitMapping ==
    /\ pc = "raw"
    /\ unicef_data = EmptyTable
    /\ population_data = EmptyTable
    /\ mortality_data = EmptyTable
    /\ merged_data = EmptyTable
    /\ counts = NoCounts
    /\ request = NoRequest
    /\ result = NoResult
    /\ analysis = NoResult
    /\ printed = <<>>
    /\ frame = NoFrame
    /\ NoWorkflow
    /\ names_df = EmptyTable
    /\ history = <<>>
    /\ mapping_given = "None"
    /\ raw_df \in MappingTables(MaxMappingRows)
    /\ filtered_df = EmptyTable
    /\ NoSheets

SpecMapping == InitMapping /\ [][NextFilter]_vars

----------------------------------------------------------------------------
(* The four stages called on tables the caller keeps *)

InitFrame ==
    /\ \/ /\ pc = "raw"
          /\ raw_df \in FilterTables(MaxFrameRows)
          /\ unicef_data = EmptyTable
          /\ population_data = EmptyTable
          /\ mortality_data = EmptyTable
       \/ /\ pc = "cleaned"
          /\ raw_df = EmptyTable
          /\ \E m \in 0..MaxFrameRows :
                \E h \in 0..MaxFrameRows :
                   \E p \in 0..MaxFrameRows :
                      /\ m + h + p <= MaxFrameRows + 1
                      /\ mortality_data \in MortalityTables(m)
                      /\ unicef_data \in UnicefTables(h)
                      /\ population_data \in PopulationTables(p)
    /\ merged_data = EmptyTable
    /\ counts = NoCounts
    /\ request = NoRequest
    /\ result = NoResult
    /\ analysis = NoResult
    /\ printed = <<>>
    /\ frame = NoFrame
    /\ NoWorkflow
    /\ names_df = EmptyTable
    /\ history = <<>>
    /\ mapping_given = "None"
    /\ filtered_df = EmptyTable
    /\ NoSheets

(* names_df = standardize_country_names(raw_df) *)
StandardizeCall ==
    /\ pc = "raw"
    /\ \E call \in {standardize_country_names_call(<<raw_df>>, 1,
                                                     MappingGiven(mapping_given))} :
           /\ raw_df' = call.heap[1]
           /\ names_df' = call.heap[call.returned]
           /\ frame' = [stage    |-> "standardize_country_names",
                        before   |-> <<raw_df>>,
                        after    |-> call.heap,
                        returned |-> call.returned]
    /\ pc' = "standardized"
    /\ UNCHANGED <<unicef_data, population_data, mortality_data, merged_data,
                   counts, request, result, history, mapping_given, filtered_df,
                   sheets, analysis, printed,
                   workflow_vars>>

(* filtered_df = filter_individual_countries(names_df) *)
FilterCall ==
    /\ pc = "standardized"
    /\ \E call \in {filter_individual_countries_call(<<names_df>>, 1)} :
           /\ names_df' = call.heap[1]
           /\ filtered_df' = call.heap[call.returned]
           /\ frame' = [stage    |-> "filter_individual_countries",
                        before   |-> <<names_df>>,
                        after    |-> call.heap,
                        returned |-> call.returned]
    /\ pc' = "filtered"
    /\ UNCHANGED <<unicef_data, population_data, mortality_data, merged_data,
                   counts, request, result, history, mapping_given, raw_df,
                   sheets, analysis, printed,
                   workflow_vars>>

(* merged_data = merge_datasets(unicef_data, population_data, mortality_data):
   the tables passed in are objects 1, 2 and 3 of the heap, and each statement of
   the function adds the object it creates *)
MergeCall ==
    /\ pc = "cleaned"
    /\ \E unicef_std \in {standardize_country_names_call(
                              <<unicef_data, population_data, mortality_data>>, 1,
                              create_country_mapping)} :
       \E population_std \in {standardize_country_names_call(
                                  unicef_std.heap, 2, create_country_mapping)} :
       \E mortality_std \in {standardize_country_names_call(
                                 population_std.heap, 3, create_country_mapping)} :
       \E unicef_clean \in {filter_individual_countries_call(
                                mortality_std.heap, unicef_std.returned)} :
       \E population_clean \in {filter_individual_countries_call(
                                    unicef_clean.heap, population_std.returned)} :
       \E mortality_clean \in {filter_individual_countries_call(
                                   population_clean.heap, mortality_std.returned)} :
       \E merged \in {copy(mortality_clean.heap, mortality_clean.returned)} :
       \E with_unicef \in {Append(merged.heap,
                                  merge(merged.heap[merged.returned],
                                        merged.heap[unicef_clean.returned]))} :
       \E with_population \in
              {IF Len(with_unicef[population_clean.returned].rows) > 0
               THEN Append(with_unicef,
                           merge(with_unicef[Len(with_unicef)],
                                 with_unicef[population_clean.returned]))
               ELSE with_unicef} :
          /\ unicef_data' = with_population[1]
          /\ population_data' = with_population[2]
          /\ mortality_data' = with_population[3]
          /\ merged_data' = with_population[Len(with_population)]
          /\ counts' = [unicef       |-> Len(with_population[unicef_clean.returned].rows),
                        population   |-> Len(with_population[population_clean.returned].rows),
                        mortality    |-> Len(with_population[mortality_clean.returned].rows),
                        after_unicef |-> Len(with_population[Len(with_unicef)].rows)]
          /\ frame' = [stage    |-> "merge_datasets",
                       before   |-> <<unicef_data, population_data, mortality_data>>,
                       after    |-> with_population,
                       returned |-> Len(with_population)]
    /\ pc' = "merged"
    /\ UNCHANGED <<request, result, names_df, history, filter_vars,
                   sheets, analysis, printed,
                   workflow_vars>>

(* result = calculate_population_weighted_coverage(merged_data, ...) *)
CoverageCall ==
    /\ pc = "merged"
    /\ \E indicator \in Indicators, track_status \in TrackStatuses :
          \E call \in {calculate_population_weighted_coverage_call(
                          <<merged_data>>, 1, indicator, track_status)} :
              /\ request' = [indicator |-> indicator, track_status |-> track_status]
              /\ merged_data' = call.heap[1]
              /\ result' = call.summary
              /\ frame' = [stage    |-> "calculate_population_weighted_coverage",
                           before   |-> <<merged_data>>,
                           after    |-> call.heap,
                           returned |-> call.returned]
    /\ pc' = "analysed"
    /\ UNCHANGED <<unicef_data, population_data, mortality_data, counts,
                   names_df, history, filter_vars, sheets, analysis, printed,
                   workflow_vars>>

NextFrame == StandardizeCall \/ FilterCall \/ MergeCall \/ CoverageCall

SpecFrame == InitFrame /\ [][NextFrame]_vars

----------------------------------------------------------------------------
(* The normalizer alone, over names and synonym tables of any kind *)

StandardizeInputs ==
    RawNames
        \cup {LowerText(k) : k \in DOMAIN country_mapping}
        \cup {k \o <<"x">> : k \in DOMAIN country_mapping}
        \cup {<<"A">>, <<"B">>, <<" ","A">>, <<"a">>, <<"A","B">>, <<" ">>, <<>>}

InitStandardize ==
    /\ pc = "names"
    /\ unicef_data = EmptyTable
    /\ population_data = EmptyTable
    /\ mortality_data = EmptyTable
    /\ merged_data = EmptyTable
    /\ counts = NoCounts
    /\ request = NoRequest
    /\ result = NoResult
    /\ analysis = NoResult
    /\ printed = <<>>
    /\ frame = NoFrame
    /\ NoWorkflow
    /\ \E x \in StandardizeInputs :
          /\ names_df = [columns |-> {"Country"}, rows |-> <<[Country |-> x]>>]
          /\ history = <<x>>
    /\ mapping_given \in MappingNames
    /\ raw_df = EmptyTable
    /\ filtered_df = EmptyTable
    /\ NoSheets

NextStandardize == StandardizeCountryNames

SpecStandardize == InitStandardize /\ [][NextStandardize]_vars

----------------------------------------------------------------------------
(* The coverage script's main, over merged tables of any content *)

CoverageMain ==
    /\ pc = "merged"
    /\ analysis' = coverage_main(merged_data)
    /\ pc' = "compared"
    /\ UNCHANGED <<unicef_data, population_data, mortality_data, merged_data,
                   counts, request, result, names_df, history, filter_vars, sheets,
                   printed, frame,
                   workflow_vars>>

NextAnalysis == CoverageMain

SpecAnalysis == InitCoverage /\ [][NextAnalysis]_vars

----------------------------------------------------------------------------
(* The mortality cleaner alone *)

InitMortality ==
    /\ pc = "sheets"
    /\ unicef_data = EmptyTable
    /\ population_data = EmptyTable
    /\ mortality_data = EmptyTable
    /\ merged_data = EmptyTable
    /\ counts = NoCounts
    /\ request = NoRequest
    /\ result = NoResult
    /\ analysis = NoResult
    /\ printed = <<>>
    /\ frame = NoFrame
    /\ NoWorkflow
    /\ names_df = EmptyTable
    /\ history = <<>>
    /\ NoFilterRun
    /\ unicef_sheet = NoSheet
    /\ population_sheet = NoSheet
    /\ mortality_sheet \in MortalitySheets(MaxMortalitySheetRows)

CleanMortalityClassification ==
    /\ pc = "sheets"
    /\ mortality_sheet # NoSheet
    /\ mortality_data' = clean_mortality_classification(mortality_sheet)
    /\ pc' = "mortality cleaned"
    /\ UNCHANGED <<unicef_data, population_data, merged_data, counts, request, result,
                   names_df, history, filter_vars, sheets, analysis,
                   printed, frame,
                   workflow_vars>>

NextMortality == CleanMortalityClassification

SpecMortality == InitMortality /\ [][NextMortality]_vars

----------------------------------------------------------------------------
(* The health cleaner, then the merge of its table *)

InitHealth ==
    /\ pc = "sheets"
    /\ unicef_data = EmptyTable
    /\ population_data \in HealthPopulationData
    /\ mortality_data = HealthMortalityData
    /\ merged_data = EmptyTable
    /\ counts = NoCounts
    /\ request = NoRequest
    /\ result = NoResult
    /\ analysis = NoResult
    /\ printed = <<>>
    /\ frame = NoFrame
    /\ NoWorkflow
    /\ names_df = EmptyTable
    /\ history = <<>>
    /\ NoFilterRun
    /\ unicef_sheet \in UnicefSheets(MaxUnicefSheetRows)
    /\ population_sheet = NoSheet
    /\ mortality_sheet = NoSheet

CleanUnicefData ==
    /\ pc = "sheets"
    /\ unicef_sheet # NoSheet
    /\ \E pick \in Tails(Relabelled(unicef_sheet)) :
          unicef_data' = clean_unicef_data(unicef_sheet, pick)
    /\ pc' = IF "raised" \in DOMAIN unicef_data' THEN "failed" ELSE "cleaned"
    /\ UNCHANGED <<population_data, mortality_data, merged_data, counts, request,
                   result, names_df, history, filter_vars, sheets, analysis,
                   printed, frame,
                   workflow_vars>>

NextHealth == CleanUnicefData \/ MergeDatasets

SpecHealth == InitHealth /\ [][NextHealth]_vars

----------------------------------------------------------------------------
(* The population cleaner alone *)

InitPopulation ==
    /\ pc = "sheets"
    /\ unicef_data = EmptyTable
    /\ population_data = EmptyTable
    /\ mortality_data = EmptyTable
    /\ merged_data = EmptyTable
    /\ counts = NoCounts
    /\ request = NoRequest
    /\ result = NoResult
    /\ analysis = NoResult
    /\ printed = <<>>
    /\ frame = NoFrame
    /\ NoWorkflow
    /\ names_df = EmptyTable
    /\ history = <<>>
    /\ NoFilterRun
    /\ unicef_sheet = NoSheet
    /\ \E layout \in PopulationLayouts :
          \E k \in 0..MaxPopulationSheetRows :
             \E rs \in [1..k -> PopulationSheetRows(layout)] :
                population_sheet = [columns |-> layout, rows |-> rs]
    /\ mortality_sheet = NoSheet

CleanPopulationData ==
    /\ pc = "sheets"
    /\ population_sheet # NoSheet
    /\ LET out == clean_population_data(population_sheet)
       IN  /\ population_data' = out.returned
           /\ printed' = IF out.warning THEN <<warning_no_births>> ELSE <<>>
           /\ pc' = IF "raised" \in DOMAIN out.returned
                    THEN "failed" ELSE "population cleaned"
    /\ UNCHANGED <<unicef_data, mortality_data, merged_data, counts, request,
                   result, names_df, history, filter_vars, sheets, analysis,
                   frame,
                   workflow_vars>>

NextPopulation == CleanPopulationData

SpecPopulation == InitPopulation /\ [][NextPopulation]_vars

----------------------------------------------------------------------------
(* The population cleaner followed by the merge *)

(* the cleaned health table the cleaned population sheet is merged with *)
PopulationHealthData ==
    [columns |-> UnicefColumns,
     rows    |-> <<[Country |-> CountryX, ANC4 |-> Num(80), SBA |-> Num(90)],
                   [Country |-> USA, ANC4 |-> Num(40), SBA |-> NaN]>>]

InitPopulationMerge ==
    /\ pc = "sheets"
    /\ unicef_data = PopulationHealthData
    /\ population_data = EmptyTable
    /\ mortality_data = HealthMortalityData
    /\ merged_data = EmptyTable
    /\ counts = NoCounts
    /\ request = NoRequest
    /\ result = NoResult
    /\ analysis = NoResult
    /\ printed = <<>>
    /\ frame = NoFrame
    /\ NoWorkflow
    /\ names_df = EmptyTable
    /\ history = <<>>
    /\ NoFilterRun
    /\ unicef_sheet = NoSheet
    /\ \E layout \in PopulationLayouts :
          \E k \in 0..MaxPopulationSheetRows :
             \E rs \in [1..k -> PopulationSheetRows(layout)] :
                population_sheet = [columns |-> layout, rows |-> rs]
    /\ mortality_sheet = NoSheet

NextPopulationMerge == CleanPopulationData \/ MergeDatasets

SpecPopulationMerge == InitPopulationMerge /\ [][NextPopulationMerge]_vars

----------------------------------------------------------------------------
(* ProjectExecutor: the workflow of run_project.py and the scripts it starts *)

DataExploration == "Data Exploration"

DataCleaningAndMerging == "Data Cleaning and Merging"

CoverageAnalysis == "Coverage Analysis"

VisualizationCreation == "Visualization Creation"

ReportGeneration == "Report Generation"

merged_health_data == "02_processed_data/merged_health_data.csv"

(* self.workflow_steps *)
workflow_steps ==
    <<[name             |-> DataExploration,
       script           |-> "03_scripts/data_preparation/01_explore_data_focused.py",
       expected_outputs |-> <<"04_documentation/data_exploration_findings.md">>,
       required         |-> TRUE],
      [name             |-> DataCleaningAndMerging,
       script           |-> "03_scripts/data_preparation/02_clean_merge_data.py",
       expected_outputs |-> <<merged_health_data>>,
       required         |-> TRUE],
      [name             |-> CoverageAnalysis,
       script           |-> "03_scripts/analysis/01_calculate_coverage.py",
       expected_outputs |-> <<"05_output/reports/coverage_analysis_summary.csv",
                              "05_output/reports/coverage_analysis_detailed.csv">>,
       required         |-> TRUE],
      [name             |-> VisualizationCreation,
       script           |-> "03_scripts/visualization/01_create_plots.py",
       expected_outputs |-> <<"05_output/figures/maternal_health_coverage_comparison.png">>,
       required         |-> TRUE],
      [name             |-> ReportGeneration,
       script           |-> "03_scripts/visualization/02_generate_report.py",
       expected_outputs |-> <<"05_output/reports/maternal_health_coverage_report.html">>,
       required         |-> TRUE]>>

total_steps == Len(workflow_steps)

Files(outputs) == {outputs[k] : k \in DOMAIN outputs}

(* a subprocess: the step it runs, how it ended, and whether an error was
   raised, and caught, inside the script *)
ScriptRun(step, status, raised) == [step |-> step.name, status |-> status, raised |-> raised]

(* the loop body of execute_workflow after execute_script returned, taking a
   failed step for an optional one *)
Recorded_as_optional(self, step, success, outputs_found) ==
    LET logged == [self EXCEPT
                      !.execution_log = Append(@, [step    |-> step.name,
                                                   script  |-> step.script,
                                                   success |-> success]),
                      !.output_files = IF success /\ outputs_found
                                       THEN @ \o step.expected_outputs ELSE @]
        listed == IF success
                  THEN [logged EXCEPT !.successful_scripts = Append(@, step.name)]
                  ELSE [logged EXCEPT !.failed_scripts = Append(@, step.name)]
    IN  IF self.i < total_steps
        THEN [listed EXCEPT !.i = @ + 1]
        ELSE [listed EXCEPT !.returned =
                 IF Len(listed.failed_scripts) = 0 THEN "True" ELSE "False"]

(* the loop body of execute_workflow after execute_script returned: the record
   appended, the step listed, and the loop left or continued *)
Recorded(self, step, success, outputs_found) ==
    LET logged == [self EXCEPT
                      !.execution_log = Append(@, [step    |-> step.name,
                                                   script  |-> step.script,
                                                   success |-> success]),
                      !.output_files = IF success /\ outputs_found
                                       THEN @ \o step.expected_outputs ELSE @]
        listed == IF success
                  THEN [logged EXCEPT !.successful_scripts = Append(@, step.name)]
                  ELSE [logged EXCEPT !.failed_scripts = Append(@, step.name)]
    IN  IF ~success /\ step.required
        THEN [listed EXCEPT !.returned = "False"]
        ELSE IF self.i < total_steps
        THEN [listed EXCEPT !.i = @ + 1]
        ELSE [listed EXCEPT !.returned =
                 IF Len(listed.failed_scripts) = 0 THEN "True" ELSE "False"]

InitWorkflow ==
    /\ pc = "workflow"
    /\ executor = [i                  |-> 1,
                   execution_log      |-> <<>>,
                   failed_scripts     |-> <<>>,
                   successful_scripts |-> <<>>,
                   output_files       |-> <<>>,
                   returned           |-> "None"]
    /\ script_runs = <<>>
    /\ disk = {}
    /\ unicef_data = EmptyTable
    /\ population_data \in {t \in HealthPopulationData : Len(t.rows) > 0}
    /\ mortality_data = HealthMortalityData
    /\ merged_data = EmptyTable
    /\ counts = NoCounts
    /\ request = NoRequest
    /\ result = NoResult
    /\ analysis = NoResult
    /\ printed = <<>>
    /\ frame = NoFrame
    /\ names_df = EmptyTable
    /\ history = <<>>
    /\ NoFilterRun
    /\ NoSheets

Running ==
    /\ pc = "subprocess"
    /\ script_runs[Len(script_runs)].status = "running"

Ended(status, raised) ==
    [script_runs EXCEPT ![Len(script_runs)] =
        ScriptRun(workflow_steps[executor.i], status, raised)]

(* execute_script up to subprocess.run: the script is missing, and the step is
   recorded as failed at once, or the script is started *)
ExecuteScript ==
    /\ pc = "workflow"
    /\ LET step == workflow_steps[executor.i]
       IN  \/ /\ executor' = Recorded(executor, step, FALSE, FALSE)
              /\ pc' = "returned"
              /\ UNCHANGED script_runs
           \/ /\ script_runs' = Append(script_runs, ScriptRun(step, "running", FALSE))
              /\ pc' = "subprocess"
              /\ UNCHANGED executor
    /\ UNCHANGED <<unicef_data, population_data, mortality_data, merged_data, counts,
                   request, result, names_df, history, filter_vars, sheets, analysis,
                   printed, frame, disk>>

(* 02_clean_merge_data.py: main cleans, merges and saves inside a try block whose
   handler prints the error and returns None, so the process exits with code 0
   either way *)
RunCleaningScript ==
    /\ Running
    /\ workflow_steps[executor.i].name = DataCleaningAndMerging
    /\ \E sheet \in UnicefSheets(MaxWorkflowSheetRows) :
          \E pick \in Tails(Relabelled(sheet)) :
             \E cleaned \in {clean_unicef_data(sheet, pick)} :
                /\ unicef_sheet' = sheet
                /\ unicef_data' = cleaned
                /\ IF "raised" \in DOMAIN cleaned
                   THEN /\ script_runs' = Ended("exit 0", TRUE)
                        /\ UNCHANGED <<merged_data, counts, disk>>
                   ELSE \E steps \in {merge_steps(cleaned, population_data,
                                                   mortality_data)} :
                           /\ merged_data' = steps.merged
                           /\ counts' = [unicef       |-> Len(steps.unicef_clean.rows),
                                         population   |-> Len(steps.population_clean.rows),
                                         mortality    |-> Len(steps.mortality_clean.rows),
                                         after_unicef |-> Len(steps.with_unicef.rows)]
                           /\ disk' = disk \cup {merged_health_data}
                           /\ script_runs' = Ended("exit 0", FALSE)
    /\ UNCHANGED <<pc, population_data, mortality_data, request, result, names_df,
                   history, filter_vars, population_sheet, mortality_sheet,
                   analysis, printed, frame, executor>>

(* 01_calculate_coverage.py: load_data raises when the merged dataset is missing,
   and main raises again whatever was raised *)
RunCoverageScript ==
    /\ Running
    /\ workflow_steps[executor.i].name = CoverageAnalysis
    /\ IF merged_health_data \notin disk
       THEN /\ script_runs' = Ended("exit 1", FALSE)
            /\ UNCHANGED disk
       ELSE \/ /\ script_runs' = Ended("exit 0", FALSE)
               /\ disk' = disk \cup Files(workflow_steps[executor.i].expected_outputs)
            \/ /\ script_runs' = Ended("exit 1", FALSE)
               /\ UNCHANGED disk
    /\ UNCHANGED <<pc, unicef_data, population_data, mortality_data, merged_data,
                   counts, request, result, names_df, history, filter_vars, sheets,
                   analysis, printed, frame, executor>>

(* the other scripts: they end with code 0, with or without their outputs, or
   with another code *)
RunScript ==
    /\ Running
    /\ workflow_steps[executor.i].name
          \in {DataExploration, VisualizationCreation, ReportGeneration}
    /\ \/ /\ script_runs' = Ended("exit 0", FALSE)
          /\ disk' = disk \cup Files(workflow_steps[executor.i].expected_outputs)
       \/ /\ script_runs' = Ended("exit 0", FALSE)
          /\ UNCHANGED disk
       \/ /\ script_runs' = Ended("exit 1", FALSE)
          /\ UNCHANGED disk
    /\ UNCHANGED <<pc, unicef_data, population_data, mortality_data, merged_data,
                   counts, request, result, names_df, history, filter_vars, sheets,
                   analysis, printed, frame, executor>>

(* subprocess.run raises: the 30 minutes are over, or the script cannot be run *)
SubprocessRaises ==
    /\ Running
    /\ \E status \in {"timed out", "exception"} :
          script_runs' = Ended(status, FALSE)
    /\ UNCHANGED <<pc, unicef_data, population_data, mortality_data, merged_data,
                   counts, request, result, names_df, history, filter_vars, sheets,
                   analysis, printed, frame, executor, disk>>

(* subprocess.run is over: execute_script returns and execute_workflow records
   the step; what the script held in memory is gone with its process *)
RecordStep ==
    /\ pc = "subprocess"
    /\ script_runs[Len(script_runs)].status # "running"
    /\ LET step    == workflow_steps[executor.i]
           success == script_runs[Len(script_runs)].status = "exit 0"
       IN  executor' = Recorded(executor, step, success,
                                Files(step.expected_outputs) \subseteq disk)
    /\ pc' = IF executor'.returned = "None" THEN "workflow" ELSE "returned"
    /\ unicef_sheet' = NoSheet
    /\ unicef_data' = EmptyTable
    /\ merged_data' = EmptyTable
    /\ counts' = NoCounts
    /\ UNCHANGED <<population_data, mortality_data, request, result, names_df,
                   history, filter_vars, population_sheet, mortality_sheet,
                   analysis, printed, frame, script_runs, disk>>

NextWorkflow ==
    \/ ExecuteScript
    \/ RunCleaningScript
    \/ RunCoverageScript
    \/ RunScript
    \/ SubprocessRaises
    \/ RecordStep

SpecWorkflow == InitWorkflow /\ [][NextWorkflow]_vars

----------------------------------------------------------------------------
(* Properties of the coverage analysis *)

Analysed == pc = "analysed"

Returned == "weighted_coverage" \in DOMAIN result

(* the rows the request selects, by position in the merged table *)
Group ==
    {i \in DOMAIN merged_data.rows :
        /\ merged_data.rows[i].Mortality_Status_Binary = request.track_status
        /\ merged_data.rows[i][request.indicator] # NaN
        /\ merged_data.rows[i].Births_2022 # NaN}

GroupValue(i) == merged_data.rows[i][request.indicator].num

GroupBirths(i) == merged_data.rows[i].Births_2022.num

Magnitude(n) == IF n >= 0 THEN n ELSE 0 - n

RECURSIVE Sigma(_, _)
Sigma(S, f) ==
    IF S = {} THEN 0
    ELSE LET i == CHOOSE j \in S : TRUE IN f[i] + Sigma(S \ {i}, f)

SigmaWeightedValues == Sigma(Group, [i \in Group |-> GroupValue(i) * Magnitude(GroupBirths(i))])

SigmaWeights == Sigma(Group, [i \in Group |-> Magnitude(GroupBirths(i))])

SigmaBirths == Sigma(Group, [i \in Group |-> GroupBirths(i)])

(* C1: for a non-empty group with at least one non-zero births value, the
   weighted_coverage returned is sum(value_i * |births_i|) / sum(|births_i|)
   over the rows of the group. *)
C1_WeightedCoverageFormula ==
    (Analysed /\ Group # {} /\ (\E i \in Group : GroupBirths(i) # 0))
        => /\ Returned
           /\ result.weighted_coverage.num * SigmaWeights
                  = SigmaWeightedValues * result.weighted_coverage.den
           /\ result.weighted_coverage.den > 0

C1_Witness ==
    /\ Analysed
    /\ request = [indicator |-> "ANC4", track_status |-> "off-track"]
    /\ Len(merged_data.rows) = 2
    /\ \A i \in 1..2 : merged_data.rows[i].Mortality_Status_Binary = "off-track"
    /\ merged_data.rows[1].ANC4 = Num(20) /\ merged_data.rows[1].Births_2022 = Num(100)
    /\ merged_data.rows[2].ANC4 = Num(80) /\ merged_data.rows[2].Births_2022 = Num(300)
    /\ Returned
    /\ result.weighted_coverage = Num(65)

(* C2: whenever a summary of a non-empty group is returned, its
   weighted_coverage lies between the smallest and the largest indicator
   value of the group, which are its min_coverage and max_coverage. *)
C2_WeightedCoverageWithinRange ==
    (Analysed /\ Group # {} /\ Returned)
        => /\ \E i \in Group : result.min_coverage = Num(GroupValue(i))
           /\ \A i \in Group : result.min_coverage.num <= GroupValue(i)
           /\ \E i \in Group : result.max_coverage = Num(GroupValue(i))
           /\ \A i \in Group : result.max_coverage.num >= GroupValue(i)
           /\ result.min_coverage.num * result.weighted_coverage.den
                  <= result.weighted_coverage.num
           /\ result.weighted_coverage.num
                  <= result.max_coverage.num * result.weighted_coverage.den

C2_Witness ==
    /\ Analysed
    /\ Returned
    /\ Cardinality(Group) = 2
    /\ \E i \in Group : GroupBirths(i) < 0
    /\ result.min_coverage = Num(20)
    /\ result.max_coverage = Num(80)
    /\ result.weighted_coverage # Num(20)
    /\ result.weighted_coverage # Num(80)

(* C3: when the group is non-empty but every births value in it is zero,
   the analysis does not raise and returns the empty-result summary. *)
C3_ZeroWeightsGiveSentinel ==
    (Analysed /\ Group # {} /\ (\A i \in Group : GroupBirths(i) = 0))
        => /\ "raised" \notin DOMAIN result
           /\ result.n_countries = 0
           /\ result.weighted_coverage = NaN

(* C4 as stated: when no row matches the request, the summary has
   n_countries = 0, no countries, and total_births, weighted_coverage, min,
   max and median all not-a-number. *)
C4_EmptyGroupAllNaN ==
    (Analysed /\ Group = {})
        => /\ Returned
           /\ result.n_countries = 0
           /\ result.countries = <<>>
           /\ result.total_births = NaN
           /\ result.weighted_coverage = NaN
           /\ result.min_coverage = NaN
           /\ result.max_coverage = NaN
           /\ result.median_coverage = NaN

(* C4 amended: when no row matches the request, the summary has
   n_countries = 0, no countries, total_births = 0, and weighted_coverage,
   min, max and median all not-a-number. *)
C4_EmptyGroupSummary ==
    (Analysed /\ Group = {})
        => /\ Returned
           /\ result.n_countries = 0
           /\ result.countries = <<>>
           /\ result.total_births = Num(0)
           /\ result.weighted_coverage = NaN
           /\ result.min_coverage = NaN
           /\ result.max_coverage = NaN
           /\ result.median_coverage = NaN
           /\ result.indicator = request.indicator
           /\ result.track_status = request.track_status

C4_Witness ==
    /\ Analysed
    /\ merged_data.rows = <<>>
    /\ Returned
    /\ result.n_countries = 0

(* C5: a row with negative births b weighs |b| in the weighted average,
   and adds b itself to total_births, which is the signed sum of births. *)
C5_NegativeBirthsWeighAbsolute ==
    (Analysed /\ Returned /\ (\E i \in Group : GroupBirths(i) < 0))
        => /\ result.total_births = Num(SigmaBirths)
           /\ result.total_births.num < SigmaWeights
           /\ result.weighted_coverage
                  = Rat(Sigma(Group, [i \in Group |->
                                  IF GroupBirths(i) < 0
                                  THEN GroupValue(i) * (0 - GroupBirths(i))
                                  ELSE GroupValue(i) * GroupBirths(i)]),
                        SigmaWeights)

C5_Witness ==
    /\ Analysed
    /\ Returned
    /\ request.track_status = "on-track"
    /\ Cardinality(Group) = 2
    /\ \E i \in Group : GroupBirths(i) = -5000
    /\ \E i \in Group : GroupBirths(i) = 100
    /\ result.total_births = Num(-4900)

----------------------------------------------------------------------------
(* Properties of the merge *)

Merged == pc \in {"merged", "analysed"}

(* the canonical names of a table's individual countries *)
IndividualNames(table) ==
    {n \in {strip(IF r.Country \in DOMAIN country_mapping
                  THEN country_mapping[r.Country] ELSE r.Country) :
                r \in {table.rows[i] : i \in DOMAIN table.rows}} :
        ~str_contains(n)}

ScenarioInputs ==
    /\ mortality_data.rows = <<[Country |-> CountryX, ISO3Code |-> "XXX",
                                Mortality_Status_Binary |-> "off-track"]>>
    /\ unicef_data.rows = <<[Country |-> CountryX, ANC4 |-> Num(40), SBA |-> NaN]>>
    /\ population_data.rows = <<[Country |-> CountryX, Births_2022 |-> Num(1000000)]>>

(* C6: with mortality {(Country X, off-track)}, health {(Country X, ANC4 = 40)}
   and population {(Country X, births = 1000000)}, the merge followed by the
   analysis of (ANC4, off-track) gives n_countries = 1, weighted_coverage = 40
   and total_births = 1000000. *)
C6_EndToEndScenario ==
    (Analysed /\ ScenarioInputs
              /\ request = [indicator |-> "ANC4", track_status |-> "off-track"])
        => /\ Returned
           /\ result.n_countries = 1
           /\ result.weighted_coverage = Num(40)
           /\ result.total_births = Num(1000000)
           /\ result.countries = <<CountryX>>

C6_Witness ==
    /\ Analysed
    /\ ScenarioInputs
    /\ request = [indicator |-> "ANC4", track_status |-> "off-track"]
    /\ Len(merged_data.rows) = 1
    /\ Returned
    /\ result.n_countries = 1

(* C7: every merged row has a canonical name that occurs in all three
   normalized, aggregate-filtered inputs and carries the births value of a
   population row of that name. *)
C7_MergedRowsInAllSources ==
    Merged =>
        \A i \in DOMAIN merged_data.rows :
            LET r == merged_data.rows[i]
            IN  /\ r.Country \in IndividualNames(mortality_data)
                /\ r.Country \in IndividualNames(unicef_data)
                /\ r.Country \in IndividualNames(population_data)
                /\ "Births_2022" \in DOMAIN r
                /\ \E j \in DOMAIN population_data.rows :
                      /\ strip(replace(population_data.rows[j].Country, country_mapping))
                             = r.Country
                      /\ population_data.rows[j].Births_2022 = r.Births_2022

(* C8: when the population table is empty, the merge returns zero rows. *)
C8_EmptyPopulationGivesNoRows ==
    (Merged /\ population_data.rows = <<>>) => merged_data.rows = <<>>

(* C9: the merge returns no more rows than any of the three filtered inputs
   has, and no more than the mortality-health join had. *)
C9_RowCountNonIncreasing ==
    Merged =>
        /\ Len(merged_data.rows) <= counts.mortality
        /\ Len(merged_data.rows) <= counts.unicef
        /\ Len(merged_data.rows) <= counts.population
        /\ Len(merged_data.rows) <= counts.after_unicef

----------------------------------------------------------------------------
(* Properties of the normalizer *)

(* C10: standardizing a name twice gives the same name as standardizing it once. *)
C10_StandardizeIdempotent ==
    Len(history) = 3 => history[3] = history[2]

(* y is x without its leading and trailing whitespace *)
IsTrimOf(y, x) ==
    \E i \in 1..(Len(x) + 1) :
        \E j \in 0..Len(x) :
            /\ y = SubSeq(x, i, j)
            /\ \A k \in 1..(i - 1) : x[k] \in {" ", "\t", "\n", "\r"}
            /\ \A k \in (j + 1)..Len(x) : x[k] \in {" ", "\t", "\n", "\r"}
            /\ y # <<>> => /\ y[1] \notin {" ", "\t", "\n", "\r"}
                           /\ y[Len(y)] \notin {" ", "\t", "\n", "\r"}

TableGiven == IF mapping_given = "None" THEN country_mapping ELSE chained_mapping

(* C11: the standardized name is trim(M[x]) when x is exactly a key of M and
   trim(x) otherwise; a name that only resembles a key is not replaced. *)
C11_ExactMatchThenTrim ==
    Len(history) >= 2 =>
        LET x == history[1]
            y == history[2]
        IN  IF \E k \in DOMAIN TableGiven : k = x
            THEN IsTrimOf(y, TableGiven[x])
            ELSE IsTrimOf(y, x)

C11_Witness ==
    /\ Len(history) >= 2
    /\ mapping_given = "None"
    /\ history[1] = <<"u","s","a">>
    /\ history[2] = <<"u","s","a">>

----------------------------------------------------------------------------
(* Properties of the aggregate filter *)

Filtered == pc = "filtered"

(* C12: after normalization and aggregate filtering no retained row has a
   country name that is empty or made of whitespace only. *)
C12_NoBlankCanonicalName ==
    Filtered =>
        \A i \in DOMAIN filtered_df.rows :
            \E k \in DOMAIN filtered_df.rows[i].Country :
                filtered_df.rows[i].Country[k] \notin {" ", "\t", "\n", "\r"}

(* the standardized names of FilterNames that denote aggregates under the
   patterns: by 'Sub-Saharan', by 'World' in another case, by 'Africa$', by
   'Micronesia' *)
KnownAggregates == {SubSaharanAfrica, World, SouthAfrica, MicronesiaFederated}

(* C13: the filter returns exactly the rows whose name matches no aggregate
   pattern, in their input order, each once, whatever their data. *)
C13_FilterIsSubsequence ==
    Filtered =>
        /\ \A i \in DOMAIN filtered_df.rows :
              \E j \in DOMAIN names_df.rows : filtered_df.rows[i] = names_df.rows[j]
        /\ \A i \in 1..(Len(filtered_df.rows) - 1) :
              filtered_df.rows[i].index < filtered_df.rows[i + 1].index
        /\ \A j \in DOMAIN names_df.rows :
              (\E i \in DOMAIN filtered_df.rows : filtered_df.rows[i] = names_df.rows[j])
                  <=> names_df.rows[j].Country \notin KnownAggregates
        /\ filtered_df.columns = names_df.columns

C13_Witness ==
    /\ Filtered
    /\ Len(raw_df.rows) = 3
    /\ raw_df.rows[1].Country = CountryX
    /\ raw_df.rows[2] = [index |-> 2, Country |-> SubSaharanAfrica, Births_2022 |-> Num(100)]
    /\ raw_df.rows[3].Country = CentralAfricanRepublic
    /\ Len(filtered_df.rows) = 2
    /\ filtered_df.rows[1].index = 1
    /\ filtered_df.rows[2].index = 3

----------------------------------------------------------------------------
(* Properties of the mortality cleaner *)

(* the Status.U5MR texts that read "achieved" or "on-track" up to letter case *)
OnTrackTexts ==
    {<<"a","c","h","i","e","v","e","d">>, <<"A","c","h","i","e","v","e","d">>,
     <<"o","n","-","t","r","a","c","k">>, <<"O","N","-","T","R","A","C","K">>}

(* C14: a null status gives a null label, a status reading "achieved" or
   "on-track" in any letter case gives on-track, every other status gives
   off-track, and no other label is produced. *)
C14_ClassifierTotal ==
    pc = "mortality cleaned" =>
        /\ Len(mortality_data.rows) = Len(mortality_sheet.rows)
        /\ \A i \in DOMAIN mortality_sheet.rows :
              LET status == mortality_sheet.rows[i].Status_U5MR
                  label  == mortality_data.rows[i].Mortality_Status_Binary
              IN  /\ label \in {"on-track", "off-track", NaNStatus}
                  /\ (label = NaNStatus) <=> (status = <<"NaN">>)
                  /\ (label = "on-track") <=> (status \in OnTrackTexts)
                  /\ mortality_data.rows[i].Country = mortality_sheet.rows[i].OfficialName

C14_Witness ==
    /\ pc = "mortality cleaned"
    /\ Len(mortality_sheet.rows) = 2
    /\ mortality_sheet.rows[1].Status_U5MR = <<"S","o","m","e"," ","O","t","h","e","r"," ","C","a","t","e","g","o","r","y">>
    /\ mortality_data.rows[1].Mortality_Status_Binary = "off-track"
    /\ mortality_sheet.rows[2].Status_U5MR = <<"A","c","h","i","e","v","e","d">>
    /\ mortality_data.rows[2].Mortality_Status_Binary = "on-track"

----------------------------------------------------------------------------
(* Properties of the gap analysis *)

Compared == pc = "compared"

(* the number of rows of the merged table a (indicator, status) pair selects *)
GroupSize(indicator, status) ==
    Cardinality({i \in DOMAIN merged_data.rows :
                    /\ merged_data.rows[i].Mortality_Status_Binary = status
                    /\ merged_data.rows[i][indicator] # NaN
                    /\ merged_data.rows[i].Births_2022 # NaN})

ResultsOf(indicator) ==
    IF indicator = "ANC4" THEN analysis.anc4_results ELSE analysis.sba_results

(* C15: for each indicator a coverage_gap, equal to weighted_coverage(on-track)
   minus weighted_coverage(off-track), and its gap row in the summary table
   are produced if and only if both groups have at least one country. *)
C15_GapIffBothGroups ==
    Compared =>
        \A indicator \in {"ANC4", "SBA"} :
            LET both == /\ GroupSize(indicator, "on-track") >= 1
                        /\ GroupSize(indicator, "off-track") >= 1
                gap  == /\ "summary_table" \in DOMAIN analysis
                        /\ "coverage_gap" \in DOMAIN ResultsOf(indicator)
                        /\ LET r == ResultsOf(indicator)
                           IN  r["coverage_gap"] =
                                 Rat(r["on-track"].weighted_coverage.num
                                        * r["off-track"].weighted_coverage.den
                                     - r["off-track"].weighted_coverage.num
                                        * r["on-track"].weighted_coverage.den,
                                     r["on-track"].weighted_coverage.den
                                        * r["off-track"].weighted_coverage.den)
                        /\ \E k \in DOMAIN analysis.summary_table :
                              /\ analysis.summary_table[k].Indicator = indicator
                              /\ analysis.summary_table[k].Track_Status = "gap_analysis"
            IN  both <=> gap

----------------------------------------------------------------------------
(* Properties of the health cleaner *)

HealthCleaned == unicef_sheet # NoSheet /\ pc \in {"cleaned", "merged"}

HealthAreas == {unicef_sheet.rows[i].Geographic_area : i \in DOMAIN unicef_sheet.rows}

(* the text an indicator is recognised by *)
IndicatorText(indicator) ==
    IF indicator = "ANC4" THEN AntenatalCare4Plus ELSE SkilledBirthAttendant

(* the records of the sheet of one country and one indicator, inside the range *)
RecordsInRange(area, indicator) ==
    {i \in DOMAIN unicef_sheet.rows :
        /\ unicef_sheet.rows[i].Geographic_area = area
        /\ Contains(unicef_sheet.rows[i].Indicator, IndicatorText(indicator))
        /\ 2018 <= unicef_sheet.rows[i].TIME_PERIOD
        /\ unicef_sheet.rows[i].TIME_PERIOD <= 2022}

LatestRecords(area, indicator) ==
    {i \in RecordsInRange(area, indicator) :
        \A j \in RecordsInRange(area, indicator) :
            unicef_sheet.rows[j].TIME_PERIOD <= unicef_sheet.rows[i].TIME_PERIOD}

(* the value the wide table holds for a country and an indicator, null if none *)
WideCell(area, indicator) ==
    IF \E k \in DOMAIN unicef_data.rows : unicef_data.rows[k].Country = area
    THEN unicef_data.rows[CHOOSE k \in DOMAIN unicef_data.rows :
                             unicef_data.rows[k].Country = area][indicator]
    ELSE NaN

OneRowPerCountry ==
    \A k, l \in DOMAIN unicef_data.rows :
        unicef_data.rows[k].Country = unicef_data.rows[l].Country => k = l

(* C16: the value the cleaned table holds for (country, indicator) is the value
   of a record of that country and indicator with the greatest year among the
   pair's records of 2018..2022 (null when the pair has none), and the table
   holds one row per country at most. *)
C16_MostRecentInRange ==
    HealthCleaned =>
        /\ OneRowPerCountry
        /\ \A area \in HealthAreas, indicator \in Indicators :
              WideCell(area, indicator) \in
                  {unicef_sheet.rows[i].OBS_VALUE : i \in LatestRecords(area, indicator)}
                  \cup (IF RecordsInRange(area, indicator) = {} THEN {NaN} ELSE {})

(* an indicator name matches the text of an indicator, as a pattern or as a substring *)
Matches(x, indicator) ==
    IF indicator = "ANC4"
    THEN anc4_mask(x) \/ Contains(x, AntenatalCare4Plus)
    ELSE sba_mask(x)

(* C17: every value of the ANC4 column comes from a record whose indicator name
   matches "Antenatal care 4+" and every value of the SBA column from a record
   whose name matches "Skilled birth attendant"; a record matching neither
   contributes to neither column. *)
C17_OnlyMatchingRecordsContribute ==
    HealthCleaned =>
        \A k \in DOMAIN unicef_data.rows, indicator \in Indicators :
            notna(unicef_data.rows[k][indicator]) =>
                \E i \in DOMAIN unicef_sheet.rows :
                    /\ unicef_sheet.rows[i].Geographic_area = unicef_data.rows[k].Country
                    /\ unicef_sheet.rows[i].OBS_VALUE = unicef_data.rows[k][indicator]
                    /\ Matches(unicef_sheet.rows[i].Indicator, indicator)

HasIndicator(r) == notna(r.ANC4) \/ notna(r.SBA)

(* C18: the cleaned wide table has one row per country, every row of it has
   ANC4 or SBA non-null, and so has every row of the merged table. *)
C18_RowsHaveAnIndicator ==
    HealthCleaned =>
        /\ OneRowPerCountry
        /\ \A k \in DOMAIN unicef_data.rows :
              /\ unicef_data.rows[k].Country \in HealthAreas
              /\ HasIndicator(unicef_data.rows[k])
        /\ pc = "merged" =>
              \A k \in DOMAIN merged_data.rows : HasIndicator(merged_data.rows[k])

(* a merged table of two countries, one row lacking ANC4 and one lacking SBA *)
C18_Witness ==
    /\ HealthCleaned
    /\ pc = "merged"
    /\ Len(unicef_data.rows) = 2
    /\ \E k, l \in DOMAIN merged_data.rows :
          /\ ~notna(merged_data.rows[k].ANC4)
          /\ ~notna(merged_data.rows[l].SBA)

----------------------------------------------------------------------------
(* Properties of the population cleaner *)

PopulationDone == population_sheet # NoSheet /\ pc \in {"population cleaned", "failed"}

HasYear == \E i \in DOMAIN population_sheet.columns : population_sheet.columns[i] = Year

(* a births cell that is a number or spells one *)
IsNumeric(cell) ==
    \/ "num" \in DOMAIN cell
    \/ /\ "text" \in DOMAIN cell
       /\ \/ IsDigits(cell.text)
          \/ cell.text # <<>> /\ cell.text[1] = "-" /\ IsDigits(Tail(cell.text))

(* the rows of the sheet of year 2022 with a numeric cell in one column, in the
   sheet's order, as (Country, Births_2022) rows *)
RowsOf2022(births) ==
    LET kept == SelectSeq(population_sheet.rows,
                          LAMBDA r : /\ Cell(population_sheet, r, Year) = 2022
                                     /\ IsNumeric(Cell(population_sheet, r, births)))
    IN  [i \in DOMAIN kept |->
            [Country     |-> Cell(population_sheet, kept[i],
                                      picked_columns[population_sheet.columns].country),
             Births_2022 |-> to_numeric(Cell(population_sheet, kept[i], births))]]

(* per layout: whether a column name contains 'births', and the first column
   whose name contains 'birth' or 'natality' (None when there is none) *)
LayoutNamesBirths ==
    [layout \in PopulationLayouts |->
        \E i \in DOMAIN layout : Contains(LowerText(layout[i]), births_term)]

BirthLike(col) == AnyTermIn(col, birth_terms)

LayoutBirthLike ==
    [layout \in PopulationLayouts |->
        IF \E i \in DOMAIN layout : BirthLike(layout[i])
        THEN layout[CHOOSE i \in DOMAIN layout :
                       /\ BirthLike(layout[i])
                       /\ \A j \in 1..(i - 1) : ~BirthLike(layout[j])]
        ELSE None]

NamesBirths == LayoutNamesBirths[population_sheet.columns]

BirthsColumn == picked_columns[population_sheet.columns].births

(* C19: the population cleaner returns exactly the rows of year 2022 whose births
   value is numeric, without raising on the other values, and no returned row
   has null births. *)
C19_Year2022NumericBirths ==
    (PopulationDone /\ HasYear /\ BirthsColumn # None) =>
        /\ pc = "population cleaned"
        /\ population_data.rows = RowsOf2022(BirthsColumn)
        /\ \A k \in DOMAIN population_data.rows :
              notna(population_data.rows[k].Births_2022)

(* two rows of 2022, one with a text that spells no number, one with a text that
   spells 950: the second alone is returned *)
C19_Witness ==
    /\ PopulationDone
    /\ BirthsColumn = BirthsThousands
    /\ Len(population_sheet.rows) = 2
    /\ Cell(population_sheet, population_sheet.rows[1], Year) = 2022
    /\ Cell(population_sheet, population_sheet.rows[1], BirthsThousands)
          = Text(<<".", ".", ".">>)
    /\ Cell(population_sheet, population_sheet.rows[2], Year) = 2022
    /\ Cell(population_sheet, population_sheet.rows[2], BirthsThousands)
          = Text(<<"9", "5", "0">>)
    /\ Len(population_data.rows) = 1
    /\ population_data.rows[1].Births_2022 = Num(950)

(* C20: when no column name contains 'births', the population cleaner returns an
   empty table, prints the warning and does not raise: no other column stands
   in for the births. *)
C20_NoBirthsColumnGivesEmpty ==
    (PopulationDone /\ HasYear /\ ~NamesBirths) =>
        /\ pc = "population cleaned"
        /\ population_data.rows = <<>>
        /\ printed = <<warning_no_births>>

(* C20, amended: when no column name contains 'births', the first column whose
   name contains 'birth' or 'natality' gives the births; only when there is no
   such column either is the table empty and the warning printed.  The cleaner
   raises in neither case. *)
C20_FallbackColumnThenEmpty ==
    (PopulationDone /\ HasYear /\ ~NamesBirths) =>
        /\ pc = "population cleaned"
        /\ IF LayoutBirthLike[population_sheet.columns] # None
           THEN /\ population_data.rows =
                      RowsOf2022(LayoutBirthLike[population_sheet.columns])
                /\ printed = <<>>
           ELSE /\ population_data.rows = <<>>
                /\ printed = <<warning_no_births>>

(* a sheet with numeric cells for 2022 but no column of births, of birth or of
   natality: an empty table and the warning *)
C20_Witness ==
    /\ PopulationDone
    /\ HasYear
    /\ LayoutBirthLike[population_sheet.columns] = None
    /\ \E k \in DOMAIN population_sheet.rows :
          /\ Cell(population_sheet, population_sheet.rows[k], Year) = 2022
          /\ Cell(population_sheet, population_sheet.rows[k], Deaths) = Num(1200)
    /\ population_data.rows = <<>>
    /\ printed = <<warning_no_births>>

----------------------------------------------------------------------------
(* Properties of the group a summary counts *)

OtherIndicator(indicator) == IF indicator = "ANC4" THEN "SBA" ELSE "ANC4"

(* C21: n_countries is the number of rows whose status is the requested one and
   whose requested indicator and births are non-null, and the countries listed
   are those rows': a row without a status label is in no group, a row lacking
   only the other indicator is counted. *)
C21_CountsTheFilteredRows ==
    (Analysed /\ Returned) =>
        /\ result.n_countries = Cardinality(Group)
        /\ Len(result.countries) = Cardinality(Group)
        /\ \A i \in DOMAIN merged_data.rows :
              (i \in Group) <=>
                 \E k \in DOMAIN result.countries :
                    result.countries[k] = merged_data.rows[i].Country

(* one row without a status label and with every value present, one row of the
   requested status lacking the other indicator: the second alone is counted *)
C21_Witness ==
    /\ Analysed
    /\ Returned
    /\ Len(merged_data.rows) = 2
    /\ merged_data.rows[1].Mortality_Status_Binary = NaNStatus
    /\ notna(merged_data.rows[1].ANC4)
    /\ notna(merged_data.rows[1].SBA)
    /\ notna(merged_data.rows[1].Births_2022)
    /\ merged_data.rows[2].Mortality_Status_Binary = request.track_status
    /\ ~notna(merged_data.rows[2][OtherIndicator(request.indicator)])
    /\ result.n_countries = 1
    /\ result.countries = <<merged_data.rows[2].Country>>

----------------------------------------------------------------------------
(* Properties of the summary table *)

SummaryBuilt == Compared /\ "summary_table" \in DOMAIN analysis

StatusPairs ==
    <<<<"ANC4", "on-track">>, <<"ANC4", "off-track">>,
      <<"SBA", "on-track">>, <<"SBA", "off-track">>>>

PairOf(row) == <<row.Indicator, row.Track_Status>>

(* C22: the summary table holds one row for each of the four (indicator, status)
   pairs, empty groups included, then at most one gap row per indicator: four
   to six rows, no pair twice. *)
C22_SummaryTableShape ==
    SummaryBuilt =>
        LET table == analysis.summary_table
        IN  /\ Len(table) \in 4..6
            /\ \A k \in 1..4 : PairOf(table[k]) = StatusPairs[k]
            /\ \A k \in 5..Len(table) :
                  /\ table[k].Track_Status = "gap_analysis"
                  /\ table[k].Indicator \in Indicators
            /\ \A k, l \in DOMAIN table : PairOf(table[k]) = PairOf(table[l]) => k = l

(* a table of five rows: the row of an empty group, and the gap row of the
   other indicator alone *)
C22_Witness ==
    /\ SummaryBuilt
    /\ Len(analysis.summary_table) = 5
    /\ analysis.summary_table[1].N_Countries = Num(0)
    /\ PairOf(analysis.summary_table[5]) = <<"SBA", "gap_analysis">>

----------------------------------------------------------------------------
(* Properties of the health cleaner on sheets lacking an indicator *)

HealthDone == unicef_sheet # NoSheet /\ pc \in {"cleaned", "failed", "merged"}

(* C23: the health cleaner does not raise on a sheet that has its columns: also
   when the records of 2018..2022 hold one indicator only, or none, it returns
   a wide table with both an ANC4 and an SBA column. *)
C23_HealthCleanerNeverRaises ==
    HealthDone =>
        /\ pc # "failed"
        /\ "raised" \notin DOMAIN unicef_data
        /\ {"ANC4", "SBA"} \subseteq unicef_data.columns


(* C24: when several records of a country and an indicator share the greatest
   year of 2018..2022, the cleaned table holds the value of the one that comes
   last in the sheet. *)
C24_LastOfTiedRecordsSurvives ==
    HealthCleaned =>
        \A area \in HealthAreas, indicator \in Indicators :
            Cardinality(LatestRecords(area, indicator)) > 1 =>
                LET last == CHOOSE i \in LatestRecords(area, indicator) :
                                \A j \in LatestRecords(area, indicator) : j <= i
                IN  WideCell(area, indicator) = unicef_sheet.rows[last].OBS_VALUE

----------------------------------------------------------------------------
(* Duplicate population rows *)

PopulationCleaned == population_sheet # NoSheet /\ pc \in {"population cleaned", "merged"}

(* the rows of the sheet of year 2022 with numeric births that name an area *)
SheetRowsOf(area) ==
    {i \in DOMAIN population_sheet.rows :
        LET r == population_sheet.rows[i]
        IN  /\ Cell(population_sheet, r, Year) = 2022
            /\ Cell(population_sheet, r,
                    picked_columns[population_sheet.columns].country) = area
            /\ IsNumeric(Cell(population_sheet, r, BirthsColumn))}

RowsNaming(rows, name) == {i \in DOMAIN rows : rows[i].Country = name}

Canonical(name) == StandardizeName(name, create_country_mapping)

RowsNamingCanonical(rows, name) ==
    {i \in DOMAIN rows : Canonical(rows[i].Country) = Canonical(name)}

(* C25: k > 1 rows of the population sheet for one country, of 2022 and with
   numeric births, all survive the population cleaner, and the merge emits k rows
   for that country when it has one mortality row and one health row. *)
C25_DuplicatePopulationRowsMultiply ==
    (PopulationCleaned /\ BirthsColumn # None) =>
        \A area \in {CountryX, UnitedStatesOfAmerica} :
            Cardinality(SheetRowsOf(area)) > 1 =>
                /\ Cardinality(RowsNaming(population_data.rows, area))
                      = Cardinality(SheetRowsOf(area))
                /\ (/\ pc = "merged"
                    /\ Cardinality(RowsNamingCanonical(mortality_data.rows, area)) = 1
                    /\ Cardinality(RowsNamingCanonical(unicef_data.rows, area)) = 1)
                   => Cardinality(RowsNaming(merged_data.rows, Canonical(area)))
                         = Cardinality(SheetRowsOf(area))

(* two rows of 2022 for the United States of America, births 1200 and 950: two
   merged rows for the United States, one with each births value *)
C25_Witness ==
    /\ pc = "merged"
    /\ population_sheet # NoSheet
    /\ BirthsColumn # None
    /\ Cardinality(SheetRowsOf(UnitedStatesOfAmerica)) = 2
    /\ Len(merged_data.rows) = 2
    /\ merged_data.rows[1].Country = UnitedStates
    /\ merged_data.rows[1].Births_2022 = Num(1200)
    /\ merged_data.rows[2].Country = UnitedStates
    /\ merged_data.rows[2].Births_2022 = Num(950)

----------------------------------------------------------------------------
(* Colliding names *)

(* the canonical names that two rows of the mortality table spell differently *)
CollidingNames ==
    {Canonical(mortality_data.rows[i].Country) : i \in
        {i \in DOMAIN mortality_data.rows :
            \E j \in DOMAIN mortality_data.rows :
               /\ mortality_data.rows[j].Country # mortality_data.rows[i].Country
               /\ Canonical(mortality_data.rows[j].Country)
                     = Canonical(mortality_data.rows[i].Country)}}

(* the countries of the rows a summary was computed from *)
GroupCountries == {merged_data.rows[i].Country : i \in Group}

(* C26: when two rows of the mortality table spell one country in two ways, the
   merged table holds a single row of that country, and a summary counts the
   country once in n_countries. *)
C26_CollidingNamesCoalesce ==
    (pc \in {"merged", "analysed"}) =>
        \A name \in CollidingNames :
            /\ RowsNaming(merged_data.rows, name) # {} =>
                  Cardinality(RowsNaming(merged_data.rows, name)) = 1
            /\ (pc = "analysed" /\ Returned /\ name \in GroupCountries) =>
                  result.n_countries = Cardinality(GroupCountries)

----------------------------------------------------------------------------
(* The stages leave their inputs alone *)

Called == frame # NoFrame

(* C27: after standardize_country_names, filter_individual_countries,
   merge_datasets and calculate_population_weighted_coverage return, every table
   passed in holds what it held before the call, the caller still sees that
   content, and the table returned is none of the tables passed in. *)
C27_StagesLeaveInputsUnchanged ==
    Called =>
        /\ \A ref \in DOMAIN frame.before : frame.after[ref] = frame.before[ref]
        /\ frame.returned \notin DOMAIN frame.before
        /\ frame.stage = "standardize_country_names" => raw_df = frame.before[1]
        /\ frame.stage = "filter_individual_countries" => names_df = frame.before[1]
        /\ frame.stage = "merge_datasets" =>
              <<unicef_data, population_data, mortality_data>> = frame.before
        /\ frame.stage = "calculate_population_weighted_coverage" =>
              merged_data = frame.before[1]

(* a table naming 'USA' was standardized: the table returned names the United
   States, the table passed in still names 'USA' *)
C27_Witness ==
    /\ Called
    /\ frame.stage = "standardize_country_names"
    /\ Len(raw_df.rows) = 1
    /\ raw_df.rows[1].Country = USA
    /\ names_df.rows[1].Country = UnitedStates
    /\ frame.after[frame.returned] = names_df

----------------------------------------------------------------------------
(* The workflow *)

WorkflowStarted == "execution_log" \in DOMAIN executor

(* C28: execute_workflow runs the five steps in their listed order, starts a
   step only after every step before it has ended and been recorded as
   successful, and once a required step is recorded as failed starts no later
   step and returns False. *)
C28_StepsInOrderUntilFailure ==
    WorkflowStarted =>
        /\ \A k \in DOMAIN executor.execution_log :
              executor.execution_log[k].step = workflow_steps[k].name
        /\ \A k \in DOMAIN script_runs :
              /\ script_runs[k].step = workflow_steps[k].name
              /\ \A j \in 1..(k - 1) :
                    /\ script_runs[j].status # "running"
                    /\ Len(executor.execution_log) >= j
                    /\ executor.execution_log[j].success
        /\ \A k \in DOMAIN executor.execution_log :
              (~executor.execution_log[k].success /\ workflow_steps[k].required) =>
                  /\ k = Len(executor.execution_log)
                  /\ Len(script_runs) <= k
                  /\ pc = "returned"
                  /\ executor.returned = "False"

(* the exploration and the cleaning succeeded, the coverage analysis failed: three
   records, the third a failure, and False returned *)
C28_Witness ==
    /\ WorkflowStarted
    /\ Len(executor.execution_log) = 3
    /\ executor.execution_log[1].success
    /\ executor.execution_log[2].success
    /\ ~executor.execution_log[3].success
    /\ executor.failed_scripts = <<CoverageAnalysis>>
    /\ executor.returned = "False"

(* C30: when the cleaning and merging script raises an error inside, the
   executor records the step as failed and the coverage analysis is never
   started. *)
C30_CleaningErrorStopsWorkflow ==
    WorkflowStarted =>
        \A k \in DOMAIN script_runs :
            (script_runs[k].step = DataCleaningAndMerging /\ script_runs[k].raised) =>
                /\ Len(executor.execution_log) >= k =>
                      ~executor.execution_log[k].success
                /\ \A j \in DOMAIN script_runs :
                      script_runs[j].step # CoverageAnalysis

----------------------------------------------------------------------------
(* The mapping table against the aggregate filter *)

(* C29: for each entry raw -> canonical of create_country_mapping, a row named
   raw is still there, under the canonical name, after standardize_country_names
   followed by filter_individual_countries. *)
C29_MappedNamesSurviveFilter ==
    pc = "filtered" =>
        \A i \in DOMAIN raw_df.rows :
            raw_df.rows[i].Country \in DOMAIN create_country_mapping =>
                \E j \in DOMAIN filtered_df.rows :
                    /\ filtered_df.rows[j].index = raw_df.rows[i].index
                    /\ filtered_df.rows[j].Country
                          = create_country_mapping[raw_df.rows[i].Country]

============================================================================
